---- MODULE Spec2Model ----
(***************************************************************************)
(* Olympos kernel core: physical frame allocator (paging.c), bitmap block   *)
(* heap (kheap.c) and interrupt core (pic.c, irq.c, isr.c, idt.c),         *)
(* modelled as a state machine.                                            *)
(*                                                                         *)
(* The machine is scaled down so that the state space is finite and small: *)
(* a machine word has WordBits bits instead of 32, a page/frame/heap block *)
(* has PAGE_SIZE bytes instead of 4096, and the frame bitmap, the heap     *)
(* bitmap and the identity-mapped region cover NUM_FRAMES, HEAP_BLOCKS_MAX *)
(* and KmemPages units instead of 32768, 2048 and 2048.  The relations the *)
(* source fixes between them are kept: the heap capacity equals the size   *)
(* of the identity-mapped region, which is smaller than the range the      *)
(* frame bitmap tracks, which is smaller than the address space.           *)
(* The interrupt core keeps the source's numbers: 16 lines, 32 exception   *)
(* slots, 256 gates, 8-bit mask registers and the port addresses of pic.c. *)
(* A page table has PT_ENTRIES entries instead of 1024, two tables still   *)
(* covering the identity-mapped region.  Interrupts are the maskable ones  *)
(* of the two controllers; the non-maskable interrupt is not modelled.     *)
(***************************************************************************)
EXTENDS Integers, Sequences, FiniteSets, TLC

\* ------------------------------------------------------------------ scale
WordBits == 8                 \* bits of uint32_t / size_t (32 in the source)
WordMod == 2 ^ WordBits       \* unsigned arithmetic wraps modulo this
PAGE_SIZE == 16               \* paging.h:14 (4096 in the source)
FRAME_SIZE == PAGE_SIZE       \* paging.h:15
NUM_FRAMES == 10              \* paging.h:16 (32768 in the source)
KmemPages == 7                \* pages of the identity-mapped region (2048)
KMEM_MAX == KmemPages * PAGE_SIZE      \* paging.h:17 (8 MiB)
HEAP_BLOCK_SIZE == 16         \* kheap.c:15 (4096 in the source)
HEAP_BLOCKS_MAX == 7          \* kheap.c:16 (2048 in the source)
HEADER_SIZE == 4              \* sizeof(uint32_t), kheap.c:165
NULL == 0
MaxKernelEnd == 17            \* highest address the kernel image may end at
MaxOps == 4                   \* heap calls explored after boot
MaxIrqOps == 3                \* interrupt-core calls and dispatches explored
MaxHandlers == 2              \* distinct callbacks drivers register
MaxChars == 3                 \* characters put on the screen, echoes included

PIC1_COMMAND == 32            \* pic.c:29 (0x20)
PIC1_DATA == 33               \* pic.c:30 (0x21)
PIC2_COMMAND == 160           \* pic.c:31 (0xA0)
PIC2_DATA == 161              \* pic.c:32 (0xA1)
ICW1_ICW4 == 1                \* pic.c:35
ICW1_INIT == 16               \* pic.c:36
ICW4_8086 == 1                \* pic.c:37
PIC_EOI == 32                 \* pic.c:44 (0x20)
IRQ_LINES == 16               \* irq.c:9, the size of irq_handlers
ISR_SLOTS == 32               \* isr.c:53, the size of isr_handlers
IRQ_BASE == 32                \* irq.c:21, the vector of line 0 after the remap
IDT_NUM_ENTRIES == 256        \* interrupts.h:9
KERNEL_CS == 8                \* gdt.h:208, idt.c:58 (1u << 3)
flags_int_gate == 142         \* idt.c:57 (0x8E)
flags_syscall_gate == 239     \* syscall.c:148 (0xEF)
SYSCALL_EXIT == 1             \* syscall.h:11
SYSCALL_WRITE == 4            \* syscall.h:13
VGA_WIDTH == 80               \* vga.h:10
VGA_HEIGHT == 25              \* vga.h:11
KBD_STATUS_OBF == 1           \* keyboard.c:34
SERIAL_COM1_BASE == 1016      \* serial.h:8, 0x3F8
SERIAL_COM2_BASE == 760       \* serial.h:9, 0x2F8
SERIAL_DATA_REG == 0          \* serial.h:18
SERIAL_INTERRUPT_ENABLE_REG == 1  \* serial.h:19
SERIAL_DIVISOR_LSB_REG == 0   \* serial.h:20
SERIAL_DIVISOR_MSB_REG == 1   \* serial.h:21
SERIAL_FIFO_CONTROL_REG == 2  \* serial.h:22
SERIAL_LINE_CONTROL_REG == 3  \* serial.h:23
SERIAL_MODEM_CONTROL_REG == 4 \* serial.h:24
SERIAL_LINE_DLAB == 128       \* serial.h:47
SERIAL_LINE_8N1 == 3          \* serial.h:61
SERIAL_LINE_STATUS_THRE == 32 \* serial.h:91
SERIAL_FIFO_SETUP == 199      \* serial.h:112-135, ENABLE | CLEAR_RECEIVE | CLEAR_TRANSMIT | 14_BYTE_THRESHOLD
SERIAL_MODEM_DTR == 1         \* serial.h:156
SERIAL_MODEM_RTS == 2         \* serial.h:163
SERIAL_MODEM_OUT1 == 4        \* serial.h:170
SERIAL_MODEM_OUT2 == 8        \* serial.h:177
SERIAL_BAUD_115200 == 1       \* serial.h:220
SERIAL_BAUD_38400 == 3        \* serial.h:222
SERIAL_BAUD_9600 == 12        \* serial.h:224
LOOPBACK_BYTE == 174          \* serial.c:37, 0xAE
PDE_PRESENT == 1              \* paging.h:22
PDE_WRITABLE == 2             \* paging.h:23
PTE_PRESENT == PDE_PRESENT    \* paging.h:25
PTE_WRITABLE == PDE_WRITABLE  \* paging.h:26

Frames == 0 .. NUM_FRAMES - 1
Blocks == 0 .. HEAP_BLOCKS_MAX - 1
Junk == -1                    \* a header word no kmalloc has written yet

VARIABLES
    phase,             \* boot position: "start", "debug", "paging_init:1..3",
                       \* "paging", "run"; "find" and "irq" for the parts alone
    elf_sections_end,  \* debug.c:23
    frame_bitmap,      \* paging.c:54, one BOOLEAN per frame
    paging_enabled,    \* CR0.PG, set by enable_paging
    heap_bitmap,       \* kheap.c:26, one BOOLEAN per block
    heap_start,        \* kheap.c:29
    blocks_used,       \* kheap.c:32
    hdr,               \* the word at the first address of every heap block
    halted,            \* the machine took the fatal path (page fault -> panic)
    corrupt,           \* a bitmap helper wrote outside heap_bitmap
    calls,             \* the most recent calls, newest last: [op, arg, ret, msg]
    frames_before,     \* frame_bitmap as it was before the newest frame call
    nops,              \* heap or interrupt-core calls made so far
    irq_handlers,      \* irq.c:9, one callback (or NULL) per line
    isr_handlers,      \* isr.c:53, one callback (or NULL) per exception
    pic1_mask,         \* interrupt mask register of the master controller
    pic2_mask,         \* interrupt mask register of the slave controller
    ipc,               \* where the foreground code stands: [at, irq, fn]
    icall,             \* the newest interrupt-core call: [op, arg, fn, ret, returned]
    itrace,            \* what the newest step did: callbacks, port writes, panics
    line_owner,        \* per line, the newest call that stored into its slot
    isr_owner,         \* per exception, the callback most recently registered
    iflag,             \* EFLAGS.IF: maskable interrupts are delivered
    idt,               \* idt.c:13, the gates written since the table was zeroed
    idtr,              \* the table register as lidt loaded it: [limit, base]
    pic1_base,         \* vector offset the master controller is programmed to
    pic2_base,         \* vector offset the slave controller is programmed to
    syscall_ready,     \* syscall_init has run
    fault,             \* CR2 and the error code of the newest page fault
    page_directory,    \* paging.c:46, one entry per table-sized region
    page_tables,       \* paging.c:51, the two static tables
    live,              \* the runs kmalloc returned and kfree has not taken back
    hstack,            \* the handlers entered and not yet returned, innermost last
    irr,               \* the lines a device has raised and no handler has served
    terminal_row,      \* tty.c:11
    terminal_column,   \* tty.c:13
    tpc,               \* where the foreground terminal_putchar stands: [at, c, reg]
    cell               \* the character cell the newest step wrote: [x, y, by]

\* the memory-management state, and the interrupt-core state
mem == <<phase, elf_sections_end, frame_bitmap, paging_enabled, heap_bitmap,
         heap_start, blocks_used, hdr, corrupt, calls, frames_before, live>>
intr == <<irq_handlers, isr_handlers, pic1_mask, pic2_mask, ipc, icall, itrace,
          line_owner, isr_owner>>
\* the processor's interrupt state and the gate table, and the translation state
cpu == <<iflag, idt, idtr, pic1_base, pic2_base, syscall_ready>>
mmu == <<fault, page_directory, page_tables>>
\* the handlers in progress, the raised lines and the text cursor
dev == <<hstack, irr, terminal_row, terminal_column, tpc, cell>>

vars == <<phase, elf_sections_end, frame_bitmap, paging_enabled, heap_bitmap,
          heap_start, blocks_used, hdr, halted, corrupt, calls, frames_before,
          nops, irq_handlers, isr_handlers, pic1_mask, pic2_mask, ipc, icall,
          itrace, line_owner, isr_owner, iflag, idt, idtr, pic1_base, pic2_base,
          syscall_ready, fault, page_directory, page_tables, live, hstack, irr,
          terminal_row, terminal_column, tpc, cell>>

\* ------------------------------------------------------------- arithmetic
U32(x) == x % WordMod
\* (addr + align - 1) & ~(align - 1)
AlignUp(addr, align) == (U32(addr + align - 1) \div align) * align

Call(op, arg, ret, msg) == [op |-> op, arg |-> arg, ret |-> ret, msg |-> msg]
NoCall == Call("none", 0, 0, "")
Last == IF Len(calls) = 0 THEN NoCall ELSE calls[Len(calls)]
\* calls keeps the three newest heap calls.
Push(c) == LET s == Append(calls, c)
           IN IF Len(s) > 3 THEN SubSeq(s, Len(s) - 2, Len(s)) ELSE s

\* The 4-byte access at addr is translated; identity mapping covers [0, KMEM_MAX).
Mapped(addr) == (~paging_enabled) \/ (addr + HEADER_SIZE <= KMEM_MAX)

\* ------------------------------------------------- interrupt core: data
Lines == 0 .. IRQ_LINES - 1
Exceptions == 0 .. ISR_SLOTS - 1
\* Function addresses: the callbacks drivers register, and the page fault
\* handler paging_init installs.  NULL is no callback.
HandlerFns == 1 .. MaxHandlers
page_fault_handler == MaxHandlers + 1

\* exception_messages[int_no] of isr.c is exception_messages[int_no + 1] here.
exception_messages ==
    <<"Division By Zero", "Debug", "Non Maskable Interrupt", "Breakpoint",
      "Into Detected Overflow", "Out of Bounds", "Invalid Opcode",
      "No Coprocessor", "Double Fault", "Coprocessor Segment Overrun",
      "Bad TSS", "Segment Not Present", "Stack Fault",
      "General Protection Fault", "Page Fault", "Unknown Interrupt",
      "Coprocessor Fault", "Alignment Check", "Machine Check", "Reserved",
      "Reserved", "Reserved", "Reserved", "Reserved", "Reserved", "Reserved",
      "Reserved", "Reserved", "Reserved", "Reserved", "Reserved", "Reserved">>

\* What a step did, in order: a callback invoked with the saved registers of
\* vector int_no, a pic_send_eoi(irq) call, a byte written to a port, a panic.
Event(ev, a, b, c, d, s, t) ==
    [ev |-> ev, a |-> a, b |-> b, c |-> c, d |-> d, s |-> s, t |-> t]
Invoke(fn, int_no) == Event("call", fn, int_no, 0, 0, "", "")
SendEoi(irq) == Event("pic_send_eoi", irq, 0, 0, 0, "", "")
Outb(port, value) == Event("outb", port, value, 0, 0, "", "")
Panic(fmt, int_no, reason) == Event("panic", int_no, 0, 0, 0, fmt, reason)
\* printf(fmt, value); memset(idt, 0, sizeof(idt)); idt_set_gate(num, base, sel,
\* flags); idt_load(&idtr) with idtr = {limit, base}; sti.
Printf(fmt, value) == Event("printf", value, 0, 0, 0, fmt, "")
MemsetIdt == Event("memset", 0, 0, 0, 0, "idt", "")
SetGate(num, base, sel, flags) == Event("idt_set_gate", num, flags, base, sel, "", "")
Lidt(limit, base) == Event("lidt", limit, base, 0, 0, "", "")
Sti == Event("sti", 0, 0, 0, 0, "", "")

ICall(op, arg, fn, ret, returned) ==
    [op |-> op, arg |-> arg, fn |-> fn, ret |-> ret, returned |-> returned]
NoICall == ICall("none", 0, NULL, 0, TRUE)
At(at, irq, fn) == [at |-> at, irq |-> irq, fn |-> fn]
Owner(op, fn) == [op |-> op, fn |-> fn]

\* ------------------------------------------------------ page structures
\* A directory entry holds the address of a page table and flags; the address
\* is kept as the index of the static table it points at, NoTable for 0.
NoTable == -1
PageFault == -2               \* the translation of an address that is not present
\* Entries per table (1024): the two static tables cover the mapped region.
PT_ENTRIES == (KmemPages + 1) \div 2
\* Entries of the directory (1024): it covers the address space.
PD_ENTRIES == (WordMod + PAGE_SIZE * PT_ENTRIES - 1) \div (PAGE_SIZE * PT_ENTRIES)
Pde(table, flags) == [table |-> table, flags |-> flags]
\* memset(&kernel_page_directory, 0, ...), memset(kernel_page_tables, 0, ...)
ZeroDirectory == [i \in 0 .. PD_ENTRIES - 1 |-> Pde(NoTable, 0)]
ZeroTables == [t \in 0 .. 1 |-> [i \in 0 .. PT_ENTRIES - 1 |-> 0]]

\* ------------------------------------------------------------ gate table
idt_entry(base, sel, flags) ==
    [base_lo |-> base % 65536, selector |-> sel, zero |-> 0, type_attr |-> flags,
     base_hi |-> (base \div 65536) % 65536]
ZeroGate == [base_lo |-> 0, selector |-> 0, zero |-> 0, type_attr |-> 0, base_hi |-> 0]
\* The table after memset(idt, 0, sizeof(idt)): no gate written.
EmptyIdt == [v \in {} |-> ZeroGate]
\* idt[v] of the table t: a gate not written since the table was zeroed is zero.
Gate(t, v) == IF v \in DOMAIN t THEN t[v] ELSE ZeroGate

\* The state the boot loader hands over: interrupts off, no table loaded,
\* the controllers at the firmware's vector offsets 0x08 and 0x70.
CpuInit ==
    /\ iflag = FALSE
    /\ idt = EmptyIdt
    /\ idtr = [limit |-> 0, base |-> 0]
    /\ pic1_base = 8 /\ pic2_base = 112
    /\ syscall_ready = FALSE
MmuInit ==
    /\ fault = [cr2 |-> 0, err_code |-> 0]
    /\ page_directory = ZeroDirectory
    /\ page_tables = ZeroTables
Tpc(at, c, reg) == [at |-> at, c |-> c, reg |-> reg]
Cell(x, y, by) == [x |-> x, y |-> y, by |-> by]
NoCell == Cell(0, 0, "none")
\* No handler entered, no line raised; tty.c:11-13 are zero-initialised.
DevInit ==
    /\ hstack = << >>
    /\ irr = {}
    /\ terminal_row = 0
    /\ terminal_column = 0
    /\ tpc = Tpc("idle", 0, 0)
    /\ cell = NoCell

\* irq.c:9, isr.c:53: zero-initialised tables; idt_init has not run.
IntrInit ==
    /\ irq_handlers = [l \in Lines |-> NULL]
    /\ isr_handlers = [v \in Exceptions |-> NULL]
    /\ ipc = At("boot", 0, NULL)
    /\ icall = NoICall
    /\ itrace = << >>
    /\ line_owner = [l \in Lines |-> Owner("none", NULL)]
    /\ isr_owner = [v \in Exceptions |-> NULL]

\* ------------------------------------------------------------------- boot
\* debug.c:23, paging.c:54, kheap.c:23-32: zero-initialised statics.
Init ==
    /\ phase = "start"
    /\ elf_sections_end = 0
    /\ frame_bitmap = [f \in Frames |-> FALSE]
    /\ paging_enabled = FALSE
    /\ heap_bitmap = [b \in Blocks |-> FALSE]
    /\ heap_start = 0
    /\ blocks_used = 0
    /\ hdr = [b \in Blocks |-> Junk]
    /\ halted = FALSE
    /\ corrupt = FALSE
    /\ calls = << >>
    /\ frames_before = [f \in Frames |-> FALSE]
    /\ nops = 0
    /\ IntrInit
    /\ pic1_mask = 184 /\ pic2_mask = 143   \* as the firmware left them
    /\ CpuInit
    /\ MmuInit
    /\ live = {}
    /\ DevInit

\* debug_initialize: without ELF section information it returns early and
\* elf_sections_end keeps its initial 0; otherwise it is the highest section end
\* (max_addr), rounded up to the page size.
debug_initialize ==
    /\ phase = "start"
    /\ phase' = "debug"
    /\ \/ elf_sections_end' = elf_sections_end
       \/ \E max_addr \in 1 .. MaxKernelEnd :
              elf_sections_end' = AlignUp(max_addr, PAGE_SIZE)
    /\ UNCHANGED <<frame_bitmap, paging_enabled, heap_bitmap, heap_start,
                   blocks_used, hdr, halted, corrupt, calls, frames_before,
                   nops>>
    /\ UNCHANGED <<intr, cpu, mmu>>
    /\ UNCHANGED dev
    /\ UNCHANGED live

\* ---------------------------------------------------------- frame bitmap
frame_test(bm, frame_num) == bm[frame_num]
frame_set(bm, frame_num) == [bm EXCEPT ![frame_num] = TRUE]
frame_clear(bm, frame_num) == [bm EXCEPT ![frame_num] = FALSE]

\* The count with the division rounding to the next frame even when exact.
kernel_frames_off_by_one(end) == (U32(end + FRAME_SIZE - 1) \div FRAME_SIZE) + 1
\* kernel_frames = (elf_sections_end + FRAME_SIZE - 1) / FRAME_SIZE
kernel_frames(end) == U32(end + FRAME_SIZE - 1) \div FRAME_SIZE

\* memset to 0, then frame_set(i) for every i < kernel_frames.  The kernel ends
\* below NUM_FRAMES * FRAME_SIZE (MaxKernelEnd), so every i is a tracked frame.
RECURSIVE frame_bitmap_init_loop(_, _, _)
frame_bitmap_init_loop(bm, i, n) ==
    IF i < n
    THEN frame_bitmap_init_loop(frame_set(bm, i), i + 1, n)
    ELSE bm
frame_bitmap_init(end) ==
    frame_bitmap_init_loop([f \in Frames |-> FALSE], 0, kernel_frames(end))

\* ------------------------------------------------------ identity mapping
\* pd_idx = virt_addr >> 22; pt_idx = (virt_addr >> 12) & 0x3FF
pd_index(virt_addr) == virt_addr \div (PAGE_SIZE * PT_ENTRIES)
pt_index(virt_addr) == (virt_addr \div PAGE_SIZE) % PT_ENTRIES

\* The entry written with the frame address alone, its flags left out.
map_page_without_flags(pd, pts, virt_addr, phys_addr, flags) ==
    LET pde == pd[pd_index(virt_addr)] IN
      IF pde.table = NoTable
      THEN pts
      ELSE [pts EXCEPT ![pde.table][pt_index(virt_addr)] =
                           phys_addr - (phys_addr % PAGE_SIZE)]
\* map_page: the tables after it.  Without a table behind the directory entry
\* it prints "[FAILED] map_page: Page table not allocated" and writes nothing;
\* otherwise the entry becomes (phys_addr & ~0xFFF) | flags.
map_page(pd, pts, virt_addr, phys_addr, flags) ==
    LET pde == pd[pd_index(virt_addr)] IN
      IF pde.table = NoTable
      THEN pts
      ELSE [pts EXCEPT ![pde.table][pt_index(virt_addr)] =
                           (phys_addr - (phys_addr % PAGE_SIZE)) + flags]

\* for (addr = 0; addr < KMEM_MAX; addr += PAGE_SIZE) map_page(addr, addr, ...)
RECURSIVE identity_map_loop(_, _, _)
identity_map_loop(pd, pts, addr) ==
    IF addr < KMEM_MAX
    THEN identity_map_loop(
             pd, map_page(pd, pts, addr, addr, PTE_PRESENT + PTE_WRITABLE),
             addr + PAGE_SIZE)
    ELSE pts

\* The mapping with the two directory entries never installed.
setup_identity_mapping_without_tables ==
    [directory |-> ZeroDirectory,
     tables |-> identity_map_loop(ZeroDirectory, ZeroTables, 0)]
\* setup_identity_mapping: the directory and the tables after it.
setup_identity_mapping ==
    LET pd == [ZeroDirectory EXCEPT
                  ![0] = Pde(0, PDE_PRESENT + PDE_WRITABLE),
                  ![1] = Pde(1, PDE_PRESENT + PDE_WRITABLE)]
    IN [directory |-> pd, tables |-> identity_map_loop(pd, ZeroTables, 0)]

\* The physical address the processor reaches for virt_addr through the
\* directory pd and the tables pts, PageFault when an entry is not present.
\* An entry's flags are its bits below the frame address.
walk(pd, pts, virt_addr) ==
    LET pde == pd[pd_index(virt_addr)] IN
      IF pde.flags % 2 # PDE_PRESENT
      THEN PageFault
      ELSE LET pte == pts[pde.table][pt_index(virt_addr)] IN
             IF (pte % PAGE_SIZE) % 2 # PTE_PRESENT
             THEN PageFault
             ELSE (pte - (pte % PAGE_SIZE)) + (virt_addr % PAGE_SIZE)
translate(virt_addr) ==
    IF paging_enabled
    THEN walk(page_directory, page_tables, virt_addr)
    ELSE virt_addr

\* paging_init, statement by statement.  It runs after idt_init: the boot
\* sequence loads the vector table before it sets up memory.
\* frame_bitmap_init();
paging_init_frames ==
    /\ phase = "debug" /\ ipc.at = "idle"
    /\ phase' = "paging_init:1"
    /\ frame_bitmap' = frame_bitmap_init(elf_sections_end)
    /\ frames_before' = frame_bitmap
    /\ UNCHANGED <<elf_sections_end, paging_enabled, heap_bitmap, heap_start,
                   blocks_used, hdr, halted, corrupt, calls, nops>>
    /\ UNCHANGED <<intr, cpu, mmu>>
    /\ UNCHANGED dev
    /\ UNCHANGED live

\* setup_identity_mapping();
paging_init_mapping ==
    /\ phase = "paging_init:1"
    /\ phase' = "paging_init:2"
    /\ page_directory' = setup_identity_mapping.directory
    /\ page_tables' = setup_identity_mapping.tables
    /\ UNCHANGED <<elf_sections_end, frame_bitmap, paging_enabled, heap_bitmap,
                   heap_start, blocks_used, hdr, halted, corrupt, calls,
                   frames_before, nops, fault>>
    /\ UNCHANGED <<intr, cpu>>
    /\ UNCHANGED dev
    /\ UNCHANGED live

\* register_isr(14, page_fault_handler);
paging_init_isr ==
    /\ phase = "paging_init:2"
    /\ phase' = "paging_init:3"
    /\ isr_handlers' = [isr_handlers EXCEPT ![14] = page_fault_handler]
    /\ isr_owner' = [isr_owner EXCEPT ![14] = page_fault_handler]
    /\ icall' = ICall("register_isr", 14, page_fault_handler, 0, TRUE)
    /\ itrace' = << >>
    /\ UNCHANGED <<elf_sections_end, frame_bitmap, paging_enabled, heap_bitmap,
                   heap_start, blocks_used, hdr, halted, corrupt, calls,
                   frames_before, nops>>
    /\ UNCHANGED <<irq_handlers, pic1_mask, pic2_mask, ipc, line_owner>>
    /\ UNCHANGED <<cpu, mmu>>
    /\ UNCHANGED dev
    /\ UNCHANGED live

\* enable_paging(&kernel_page_directory); printf("[  OK  ] Paging ...");
paging_init ==
    /\ phase = "paging_init:3"
    /\ phase' = "paging"
    /\ paging_enabled' = TRUE
    /\ calls' = <<Call("paging_init", 0, 0, "[  OK  ] Paging initialized successfully.")>>
    /\ UNCHANGED <<elf_sections_end, frame_bitmap, heap_bitmap, heap_start,
                   blocks_used, hdr, halted, corrupt, frames_before, nops>>
    /\ UNCHANGED <<intr, cpu, mmu>>
    /\ UNCHANGED dev
    /\ UNCHANGED live

\* The scan with the loop bound one short: the last frame is never tested.
RECURSIVE frame_scan_stops_early(_, _)
frame_scan_stops_early(bm, i) ==
    IF i < NUM_FRAMES - 1
    THEN IF ~frame_test(bm, i) THEN i ELSE frame_scan_stops_early(bm, i + 1)
    ELSE NUM_FRAMES
\* The index frame_alloc's scan stops at: the first clear bit, NUM_FRAMES if none.
RECURSIVE frame_scan(_, _)
frame_scan(bm, i) ==
    IF i < NUM_FRAMES
    THEN IF ~frame_test(bm, i) THEN i ELSE frame_scan(bm, i + 1)
    ELSE NUM_FRAMES

frame_alloc ==
    /\ phase = "run" /\ ~halted
    /\ LET i == frame_scan(frame_bitmap, 0) IN
         IF i < NUM_FRAMES
         THEN /\ frame_bitmap' = frame_set(frame_bitmap, i)
              /\ calls' = <<Call("frame_alloc", 0, i * FRAME_SIZE, "")>>
         ELSE /\ frame_bitmap' = frame_bitmap
              /\ calls' = <<Call("frame_alloc", 0, 0, "")>>
    /\ frames_before' = frame_bitmap
    /\ UNCHANGED <<phase, elf_sections_end, paging_enabled, heap_bitmap,
                   heap_start, blocks_used, hdr, halted, corrupt, nops>>
    /\ UNCHANGED <<intr, cpu, mmu>>
    /\ UNCHANGED dev
    /\ UNCHANGED live

\* The addresses frame_free is tried with: every frame base up to two past the
\* tracked range, an address inside a frame, and the highest address.
FrameFreeAddrs ==
    {f * FRAME_SIZE : f \in 0 .. NUM_FRAMES + 1}
        \cup {FRAME_SIZE + 1, WordMod - 1}

\* The range check with > for >=.
frame_free_accepts_one_past(frame_num) == frame_num > NUM_FRAMES
\* if (frame_num >= NUM_FRAMES): the address is beyond the tracked range
frame_free_rejects(frame_num) == frame_num >= NUM_FRAMES

frame_free ==
    /\ phase = "run" /\ ~halted
    /\ \E frame_addr \in FrameFreeAddrs :
         LET frame_num == frame_addr \div FRAME_SIZE IN
           IF frame_free_rejects(frame_num)
           THEN /\ frame_bitmap' = frame_bitmap
                /\ calls' = <<Call("frame_free", frame_addr, 0,
                                   "frame_free: Invalid frame address")>>
           ELSE /\ frame_bitmap' = frame_clear(frame_bitmap, frame_num)
                /\ calls' = <<Call("frame_free", frame_addr, 0, "")>>
    /\ frames_before' = frame_bitmap
    /\ UNCHANGED <<phase, elf_sections_end, paging_enabled, heap_bitmap,
                   heap_start, blocks_used, hdr, halted, corrupt, nops>>
    /\ UNCHANGED <<intr, cpu, mmu>>
    /\ UNCHANGED dev
    /\ UNCHANGED live

\* ------------------------------------------------------------------- heap
\* kheap_init: heap_start is elf_sections_end rounded up to the block size.
kheap_init ==
    /\ phase = "paging"
    /\ phase' = "run"
    /\ heap_start' = AlignUp(elf_sections_end, HEAP_BLOCK_SIZE)
    /\ heap_bitmap' = [b \in Blocks |-> FALSE]
    /\ blocks_used' = 0
    /\ calls' = <<Call("kheap_init", 0, 0, "[  OK  ] Heap initialized")>>
    /\ UNCHANGED <<elf_sections_end, frame_bitmap, paging_enabled, hdr, halted,
                   corrupt, frames_before, nops>>
    /\ UNCHANGED <<intr, cpu, mmu>>
    /\ UNCHANGED dev
    /\ live' = {}


\* is_block_used / mark_block_used / mark_block_free on one bit of the bitmap.
is_block_used(bm, block_idx) == bm[block_idx]
mark_block_used(bm, block_idx) == [bm EXCEPT ![block_idx] = TRUE]
mark_block_free(bm, block_idx) == [bm EXCEPT ![block_idx] = FALSE]

\* The inner loop of find_free_blocks: the first j < count with block i + j
\* used (the loop breaks there), or -1 when the loop ends with all_free true.
RECURSIVE find_inner(_, _, _, _)
find_inner(bm, i, j, count) ==
    IF j < count /\ (i + j) < HEAP_BLOCKS_MAX
    THEN IF is_block_used(bm, i + j) THEN j ELSE find_inner(bm, i, j + 1, count)
    ELSE -1

\* The outer loop with the skip-ahead jumping one block too far (i += j + 1).
RECURSIVE find_outer_overskip(_, _, _)
find_outer_overskip(bm, i, count) ==
    IF i < HEAP_BLOCKS_MAX
    THEN LET j == find_inner(bm, i, 0, count) IN
           IF j = -1
           THEN IF (i + count) <= HEAP_BLOCKS_MAX THEN i
                ELSE find_outer_overskip(bm, i + 1, count)
           ELSE find_outer_overskip(bm, i + j + 2, count)
    ELSE -1
\* The outer loop from i: on a used block at i + j, i += j and the loop's own
\* i++ follows; on all_free the bounds check decides.
RECURSIVE find_outer(_, _, _)
find_outer(bm, i, count) ==
    IF i < HEAP_BLOCKS_MAX
    THEN LET j == find_inner(bm, i, 0, count) IN
           IF j = -1
           THEN IF (i + count) <= HEAP_BLOCKS_MAX THEN i
                ELSE find_outer(bm, i + 1, count)
           ELSE find_outer(bm, i + j + 1, count)
    ELSE -1

find_free_blocks(bm, count) == find_outer(bm, 0, count)

\* total_size = size + sizeof(uint32_t);
\* blocks_needed = (total_size + HEAP_BLOCK_SIZE - 1) / HEAP_BLOCK_SIZE, in size_t.
blocks_needed_of(size) ==
    U32(U32(size + HEADER_SIZE) + HEAP_BLOCK_SIZE - 1) \div HEAP_BLOCK_SIZE

\* for (i = 0; i < blocks_needed; i++) mark_block_used(start_block + i)
RECURSIVE mark_used_loop(_, _, _, _)
mark_used_loop(bm, start, i, n) ==
    IF i < n THEN mark_used_loop(mark_block_used(bm, start + i), start, i + 1, n)
    ELSE bm
mark_run_used(bm, start, n) == mark_used_loop(bm, start, 0, n)

\* for (i = 0; i < blocks_to_free; i++) mark_block_free(start_block + i); an
\* index past the bitmap is no bit of it (the write lands outside heap_bitmap,
\* which kfree records in corrupt).
RECURSIVE mark_free_loop(_, _, _, _)
mark_free_loop(bm, start, i, n) ==
    IF i < n
    THEN mark_free_loop(IF start + i \in Blocks
                        THEN mark_block_free(bm, start + i) ELSE bm,
                        start, i + 1, n)
    ELSE bm
\* The freeing loop starting at i = 1: the run's first block stays marked used.
mark_run_free_skips_first(bm, start, n) == mark_free_loop(bm, start, 1, n)
mark_run_free(bm, start, n) == mark_free_loop(bm, start, 0, n)

\* The sizes kmalloc is tried with: 0, the 8 bytes of the spec's scenario (one
\* block), the smallest size of two blocks, the whole heap, one byte more, and
\* two sizes for which the size_t sums wrap.
KmallocSizes ==
    {0, 8, HEAP_BLOCK_SIZE - HEADER_SIZE + 1,
     HEAP_BLOCKS_MAX * HEAP_BLOCK_SIZE - HEADER_SIZE,
     HEAP_BLOCKS_MAX * HEAP_BLOCK_SIZE - HEADER_SIZE + 1,
     WordMod - HEAP_BLOCK_SIZE, WordMod - 1}

\* A run kmalloc handed out: the address returned, its first block, its length.
Run(ptr, start, n) == [ptr |-> ptr, start |-> start, n |-> n]

HeapStep(c) ==
    /\ calls' = Push(c)
    /\ nops' = nops + 1
    /\ UNCHANGED <<phase, elf_sections_end, frame_bitmap, paging_enabled,
                   heap_start, frames_before>>
    /\ UNCHANGED <<intr, idt, idtr, pic1_base, pic2_base, syscall_ready,
                   page_directory, page_tables>>
    /\ UNCHANGED dev

kmalloc ==
    /\ phase = "run" /\ ~halted /\ ~corrupt /\ nops < MaxOps
    /\ \E size \in KmallocSizes :
         LET blocks_needed == blocks_needed_of(size)
             start_block == find_free_blocks(heap_bitmap, blocks_needed)
             ptr == U32(heap_start + start_block * HEAP_BLOCK_SIZE)
         IN
           IF size = 0
           THEN /\ HeapStep(Call("kmalloc", size, NULL, ""))
                /\ UNCHANGED <<heap_bitmap, blocks_used, hdr, halted, corrupt, iflag, fault, live>>
           ELSE IF blocks_needed > HEAP_BLOCKS_MAX
           THEN /\ HeapStep(Call("kmalloc", size, NULL,
                                 "[FAILED] kmalloc: Request too large"))
                /\ UNCHANGED <<heap_bitmap, blocks_used, hdr, halted, corrupt, iflag, fault, live>>
           ELSE IF start_block < 0
           THEN /\ HeapStep(Call("kmalloc", size, NULL,
                                 "[FAILED] kmalloc: Out of memory!"))
                /\ UNCHANGED <<heap_bitmap, blocks_used, hdr, halted, corrupt, iflag, fault, live>>
           ELSE /\ heap_bitmap' = mark_run_used(heap_bitmap, start_block, blocks_needed)
                /\ blocks_used' = U32(blocks_used + blocks_needed)
                /\ IF Mapped(ptr)
                   THEN /\ hdr' = [hdr EXCEPT ![start_block] = blocks_needed]
                        /\ live' = live \cup {Run(U32(ptr + HEADER_SIZE), start_block,
                                                   blocks_needed)}
                        /\ HeapStep(Call("kmalloc", size, U32(ptr + HEADER_SIZE), ""))
                        /\ UNCHANGED <<halted, iflag, fault>>
                   ELSE \* *ptr = blocks_needed faults: page_fault_handler panics
                        /\ fault' = [cr2 |-> ptr, err_code |-> 2]
                        /\ iflag' = FALSE
                        /\ halted' = TRUE
                        /\ HeapStep(Call("kmalloc", size, -1, "PAGE FAULT!"))
                        /\ UNCHANGED <<hdr, live>>
                /\ UNCHANGED corrupt

\* The header words a read may find where no kmalloc has written one (payload
\* bytes, never-used memory): zero, one, the capacity and one more.
JunkWords == {0, 1, HEAP_BLOCKS_MAX, HEAP_BLOCKS_MAX + 1}

\* The words *count_ptr may hold.
HeaderAt(count_ptr) ==
    LET off == count_ptr - heap_start
        idx == off \div HEAP_BLOCK_SIZE
    IN IF off >= 0 /\ off % HEAP_BLOCK_SIZE = 0 /\ idx \in Blocks /\ hdr[idx] # Junk
       THEN {hdr[idx]}
       ELSE JunkWords

\* The address kmalloc returns for a run starting at block b.
PayloadAddr(b) == U32(heap_start + b * HEAP_BLOCK_SIZE + HEADER_SIZE)

\* The pointers kfree is tried with: every address kmalloc has returned so far
\* (live, already freed, or stale), NULL, a pointer below the header size, the
\* payload addresses of the block before the heap, of the last block and of the
\* block past the heap, and an address inside the first block's payload.
KfreePtrs ==
    {PayloadAddr(b) : b \in {x \in Blocks : hdr[x] # Junk}}
      \cup {NULL, 2, PayloadAddr(-1), PayloadAddr(HEAP_BLOCKS_MAX - 1),
            PayloadAddr(HEAP_BLOCKS_MAX), U32(PayloadAddr(0) + HEADER_SIZE)}

\* The count check bounded one too high: a count of HEAP_BLOCKS_MAX + 1 passes.
kfree_count_accepts_one_more(blocks_to_free) ==
    blocks_to_free = 0 \/ blocks_to_free > HEAP_BLOCKS_MAX + 1
\* if (blocks_to_free == 0 || blocks_to_free > HEAP_BLOCKS_MAX)
kfree_count_corrupted(blocks_to_free) ==
    blocks_to_free = 0 \/ blocks_to_free > HEAP_BLOCKS_MAX

kfree_call(ptr) ==
    /\ phase = "run" /\ ~halted /\ ~corrupt /\ nops < MaxOps
    /\   LET count_ptr == U32(ptr - HEADER_SIZE)
             block_addr == count_ptr
             start_block == (block_addr - heap_start) \div HEAP_BLOCK_SIZE
         IN
           IF ptr = NULL
           THEN /\ HeapStep(Call("kfree", ptr, 0, ""))
                /\ UNCHANGED <<heap_bitmap, blocks_used, hdr, halted, corrupt, iflag, fault, live>>
           ELSE IF ~Mapped(count_ptr)
           THEN \* blocks_to_free = *count_ptr faults before any validation
                /\ fault' = [cr2 |-> IF count_ptr >= KMEM_MAX THEN count_ptr
                                      ELSE KMEM_MAX,
                             err_code |-> 0]
                /\ iflag' = FALSE
                /\ halted' = TRUE
                /\ HeapStep(Call("kfree", ptr, -1, "PAGE FAULT!"))
                /\ UNCHANGED <<heap_bitmap, blocks_used, hdr, corrupt, live>>
           ELSE \E blocks_to_free \in HeaderAt(count_ptr) :
             IF block_addr < heap_start
             THEN /\ HeapStep(Call("kfree", ptr, 0,
                                   "kfree: Invalid pointer (before heap start)"))
                  /\ UNCHANGED <<heap_bitmap, blocks_used, hdr, halted, corrupt, iflag, fault, live>>
             ELSE IF start_block >= HEAP_BLOCKS_MAX
             THEN /\ HeapStep(Call("kfree", ptr, 0,
                                   "[FAILED] kfree: Invalid pointer (beyond heap)"))
                  /\ UNCHANGED <<heap_bitmap, blocks_used, hdr, halted, corrupt, iflag, fault, live>>
             ELSE IF kfree_count_corrupted(blocks_to_free)
             THEN /\ HeapStep(Call("kfree", ptr, 0,
                                   "[FAILED] kfree: Corrupted block count"))
                  /\ UNCHANGED <<heap_bitmap, blocks_used, hdr, halted, corrupt, iflag, fault, live>>
             ELSE /\ heap_bitmap' = mark_run_free(heap_bitmap, start_block, blocks_to_free)
                  /\ corrupt' = (start_block + blocks_to_free > HEAP_BLOCKS_MAX)
                  /\ blocks_used' = U32(blocks_used - blocks_to_free)
                  /\ live' = {a \in live : a.ptr # ptr}
                  /\ HeapStep(Call("kfree", ptr, blocks_to_free, ""))
                  /\ UNCHANGED <<hdr, halted, iflag, fault>>

\* kfree with any of the pointers above.
kfree == \E ptr \in KfreePtrs : kfree_call(ptr)
\* kfree as a correct caller uses it: with the address of a live allocation,
\* which is thereby freed at most once.
kfree_live == \E a \in live : kfree_call(a.ptr)

\* ------------------------------------------------ find_free_blocks alone
find_probe ==
    /\ phase = "find"
    /\ \E count \in 0 .. HEAP_BLOCKS_MAX + 1 :
         calls' = <<Call("find_free_blocks", count,
                         find_free_blocks(heap_bitmap, count), "")>>
    /\ UNCHANGED <<phase, elf_sections_end, frame_bitmap, paging_enabled,
                   heap_bitmap, heap_start, blocks_used, hdr, halted, corrupt,
                   frames_before, nops>>
    /\ UNCHANGED <<intr, cpu, mmu>>
    /\ UNCHANGED dev
    /\ UNCHANGED live

\* --------------------------------------------- controller-line manager
\* Bit b of the byte v; bits 8 and up of a byte are 0.
Bit(v, b) == (v \div (2 ^ b)) % 2
\* (uint8_t)(v & ~(1 << b)) and (uint8_t)(v | (1 << b))
ClearBit(v, b) == (v - Bit(v, b) * (2 ^ b)) % 256
SetBit(v, b) == (v + (1 - Bit(v, b)) * (2 ^ b)) % 256

\* inb on a data port reads that controller's mask register.
inb(port) == IF port = PIC1_DATA THEN pic1_mask ELSE pic2_mask

\* if (irq < 8) port = PIC1_DATA; else { port = PIC2_DATA; irq -= 8; }
pic_port(irq) == IF irq < 8 THEN PIC1_DATA ELSE PIC2_DATA
\* The bit number without the irq -= 8 of the slave branch.
pic_bit_unadjusted(irq) == irq
pic_bit(irq) == IF irq < 8 THEN irq ELSE irq - 8

\* The value pic_mask writes with the bit not set: the mask as it was read.
pic_mask_value_unchanged(irq) == inb(pic_port(irq))
\* value = inb(port) | (1 << irq)
pic_mask_value(irq) == SetBit(inb(pic_port(irq)), pic_bit(irq))
\* The value pic_unmask writes with the neighbouring bit cleared as well.
pic_unmask_value_clears_two(irq) ==
    ClearBit(ClearBit(inb(pic_port(irq)), pic_bit(irq)), (pic_bit(irq) + 1) % 8)
\* value = inb(port) & ~(1 << irq)
pic_unmask_value(irq) == ClearBit(inb(pic_port(irq)), pic_bit(irq))

\* outb(port, value) on a data port outside an initialisation sequence writes
\* the mask register (OCW1).
outb_mask(port, value) ==
    /\ pic1_mask' = IF port = PIC1_DATA THEN value ELSE pic1_mask
    /\ pic2_mask' = IF port = PIC2_DATA THEN value ELSE pic2_mask

\* The acknowledgment with the slave branch left out.
pic_send_eoi_master_only(irq) ==
    <<SendEoi(irq), Outb(PIC1_COMMAND, PIC_EOI)>>
\* pic_send_eoi: the port writes it makes, in order.
pic_send_eoi(irq) ==
    <<SendEoi(irq)>>
      \o (IF irq >= 8 THEN <<Outb(PIC2_COMMAND, PIC_EOI)>> ELSE << >>)
      \o <<Outb(PIC1_COMMAND, PIC_EOI)>>

\* The remap without the final mask writes.
pic_remap_without_masks(master_offset, slave_offset) ==
    <<Outb(PIC1_COMMAND, ICW1_INIT + ICW1_ICW4),
      Outb(PIC2_COMMAND, ICW1_INIT + ICW1_ICW4),
      Outb(PIC1_DATA, master_offset), Outb(PIC2_DATA, slave_offset),
      Outb(PIC1_DATA, 4), Outb(PIC2_DATA, 2),
      Outb(PIC1_DATA, ICW4_8086), Outb(PIC2_DATA, ICW4_8086)>>
\* pic_remap: ICW1 to both command ports, then ICW2, ICW3, ICW4 and the mask
\* 0xFF to both data ports.
pic_remap(master_offset, slave_offset) ==
    <<Outb(PIC1_COMMAND, ICW1_INIT + ICW1_ICW4),
      Outb(PIC2_COMMAND, ICW1_INIT + ICW1_ICW4),
      Outb(PIC1_DATA, master_offset), Outb(PIC2_DATA, slave_offset),
      Outb(PIC1_DATA, 4), Outb(PIC2_DATA, 2),
      Outb(PIC1_DATA, ICW4_8086), Outb(PIC2_DATA, ICW4_8086),
      Outb(PIC1_DATA, 255), Outb(PIC2_DATA, 255)>>

\* One 8259A: its mask register, the vector offset it is programmed to, the
\* byte it expects next on its data port, and the ICW1 that began the
\* initialisation sequence in progress.
Pic(imr, base, next, icw1) == [imr |-> imr, base |-> base, next |-> next, icw1 |-> icw1]

\* The controller with ports command and data after outb(port, value).  A
\* command byte with bit 4 set is ICW1: the mask register is cleared and ICW2
\* is expected on the data port, then ICW3 unless ICW1 says single mode, then
\* ICW4 if ICW1 asks for it.  Outside the sequence a data byte is the mask
\* (OCW1); other command bytes (EOI) leave mask and offset alone.
pic_outb(pic, command, data, port, value) ==
    IF port = command
    THEN IF Bit(value, 4) = 1
         THEN Pic(0, pic.base, "icw2", value)
         ELSE pic
    ELSE IF port = data
    THEN CASE pic.next = "icw2" ->
                Pic(pic.imr, value - (value % 8),
                    IF Bit(pic.icw1, 1) = 0 THEN "icw3"
                    ELSE IF Bit(pic.icw1, 0) = 1 THEN "icw4" ELSE "ocw",
                    pic.icw1)
           [] pic.next = "icw3" ->
                Pic(pic.imr, pic.base,
                    IF Bit(pic.icw1, 0) = 1 THEN "icw4" ELSE "ocw", pic.icw1)
           [] pic.next = "icw4" -> Pic(pic.imr, pic.base, "ocw", pic.icw1)
           [] OTHER -> Pic(value, pic.base, "ocw", pic.icw1)
    ELSE pic

\* --------------------------------------------- vector table and dispatch
\* Addresses the linker assigns: the entry stub of vector v (isr0..isr31,
\* irq0..irq15, isr128) and the table idt; distinct and above 1 MiB.
StubAddr(v) == 1048576 + 16 * v
IdtAddr == StubAddr(IDT_NUM_ENTRIES)
\* sizeof(idt_entry_t): the packed struct of interrupts.h
IdtEntrySize == 2 + 2 + 1 + 1 + 2

\* idt_set_gate on the table t; num is a uint8_t.
idt_set_gate(t, num, base, sel, flags) ==
    [w \in DOMAIN t \cup {num % 256} |->
        IF w = num % 256 THEN idt_entry(base, sel, flags) ELSE t[w]]

\* P, DPL and gate type of the type/attribute byte.
GatePresent(g) == Bit(g.type_attr, 7) = 1
GateDpl(g) == (g.type_attr \div 32) % 4
GateType(g) == g.type_attr % 16

\* What a sequence of statements leaves behind, component by component.
\* The gate table: the gates written after the last memset, over the table t
\* if there was no memset.
LastIndex(trace, ev) ==
    LET ks == {k \in 1 .. Len(trace) : trace[k].ev = ev}
    IN IF ks = {} THEN 0 ELSE CHOOSE k \in ks : \A j \in ks : j <= k
idt_after(t, trace) ==
    LET zeroed == LastIndex(trace, "memset")
        sets == {k \in zeroed + 1 .. Len(trace) : trace[k].ev = "idt_set_gate"}
        last(w) == CHOOSE k \in sets :
                       /\ trace[k].a % 256 = w
                       /\ \A j \in sets : trace[j].a % 256 = w => j <= k
        old == IF zeroed = 0 THEN t ELSE EmptyIdt
    IN [w \in DOMAIN old \cup {trace[k].a % 256 : k \in sets} |->
           IF \E k \in sets : trace[k].a % 256 = w
           THEN idt_set_gate(EmptyIdt, trace[last(w)].a, trace[last(w)].c,
                             trace[last(w)].d, trace[last(w)].b)[w]
           ELSE old[w]]
\* The table register: what the last lidt loaded, r if there was none.
idtr_after(r, trace) ==
    LET k == LastIndex(trace, "lidt")
    IN IF k = 0 THEN r ELSE [limit |-> trace[k].a, base |-> trace[k].b]
\* The interrupt flag: set if there was an sti, i otherwise.
sti_after(i, trace) == IF LastIndex(trace, "sti") = 0 THEN i ELSE TRUE
\* A controller: its reaction to the port writes, one after the other.
RECURSIVE pic_after(_, _, _, _, _)
pic_after(pic, command, data, writes, k) ==
    IF k > Len(writes)
    THEN pic
    ELSE pic_after(pic_outb(pic, command, data, writes[k].a, writes[k].b),
                   command, data, writes, k + 1)
OutbOf(trace) == SelectSeq(trace, LAMBDA e : e.ev = "outb")

\* idt.c:62-93, the gates of the exceptions.
exception_gates ==
    [n \in 1 .. ISR_SLOTS |->
        SetGate(n - 1, StubAddr(n - 1), KERNEL_CS, flags_int_gate)]
\* The gates of the lines with the last one left out.
irq_gates_without_last ==
    [n \in 1 .. IRQ_LINES - 1 |->
        SetGate(IRQ_BASE + n - 1, StubAddr(IRQ_BASE + n - 1), KERNEL_CS,
                flags_int_gate)]
\* idt.c:100-115, the gates of the lines.
irq_gates ==
    [n \in 1 .. IRQ_LINES |->
        SetGate(IRQ_BASE + n - 1, StubAddr(IRQ_BASE + n - 1), KERNEL_CS,
                flags_int_gate)]
\* idtr.limit = (uint16_t)(sizeof(idt_entry_t) * IDT_NUM_ENTRIES - 1);
\* idtr.base = (uint32_t)&idt[0]; idt_load((uint32_t)&idtr);
idt_load == Lidt((IdtEntrySize * IDT_NUM_ENTRIES - 1) % 65536, IdtAddr)

\* The statements with interrupts enabled before the table is built.
idt_init_steps_sti_first ==
    <<Sti, MemsetIdt>> \o exception_gates \o pic_remap(32, 40) \o irq_gates
      \o <<idt_load, Printf("[  OK  ] IDT initialized successfully.\n", 0)>>
\* idt_init: its statements, in order.
idt_init_steps ==
    <<MemsetIdt>> \o exception_gates \o pic_remap(32, 40) \o irq_gates
      \o <<idt_load, Printf("[  OK  ] IDT initialized successfully.\n", 0), Sti>>

\* The controllers as the variables hold them; between calls no
\* initialisation sequence is in progress.
Pic1Now == Pic(pic1_mask, pic1_base, "ocw", 0)
Pic2Now == Pic(pic2_mask, pic2_base, "ocw", 0)

\* idt_init.  It runs once, after debug_initialize when the whole boot is
\* modelled; no interrupt can arrive before its last statement.
idt_init ==
    /\ phase \in {"irq", "debug"} /\ ipc.at = "boot"
    /\ LET p1 == pic_after(Pic1Now, PIC1_COMMAND, PIC1_DATA, OutbOf(idt_init_steps), 1)
           p2 == pic_after(Pic2Now, PIC2_COMMAND, PIC2_DATA, OutbOf(idt_init_steps), 1)
       IN /\ idt' = idt_after(idt, idt_init_steps)
          /\ idtr' = idtr_after(idtr, idt_init_steps)
          /\ iflag' = sti_after(iflag, idt_init_steps)
          /\ pic1_mask' = p1.imr /\ pic1_base' = p1.base
          /\ pic2_mask' = p2.imr /\ pic2_base' = p2.base
    /\ itrace' = idt_init_steps
    /\ ipc' = At("idle", 0, NULL)
    /\ icall' = ICall("idt_init", 0, NULL, 0, TRUE)
    /\ UNCHANGED <<irq_handlers, isr_handlers, line_owner, isr_owner, halted,
                   nops, syscall_ready>>
    /\ UNCHANGED <<mem, mmu>>
    /\ UNCHANGED dev

\* The offsets pic_remap is called with: idt_init's, the firmware's, and the
\* lowest and the highest base a controller can be programmed to.
RemapOffsets == {<<32, 40>>, <<8, 112>>, <<0, 248>>, <<248, 0>>}

\* pic_remap called on its own, in whatever state the controllers are.
pic_remap_call ==
    /\ phase = "pic"
    /\ \E o \in RemapOffsets :
         LET writes == pic_remap(o[1], o[2])
             p1 == pic_after(Pic1Now, PIC1_COMMAND, PIC1_DATA, OutbOf(writes), 1)
             p2 == pic_after(Pic2Now, PIC2_COMMAND, PIC2_DATA, OutbOf(writes), 1)
         IN /\ pic1_mask' = p1.imr /\ pic1_base' = p1.base
            /\ pic2_mask' = p2.imr /\ pic2_base' = p2.base
            /\ itrace' = writes
            /\ icall' = ICall("pic_remap", o[1], NULL, o[2], TRUE)
    /\ UNCHANGED <<irq_handlers, isr_handlers, line_owner, isr_owner, ipc,
                   halted, nops, iflag, idt, idtr, syscall_ready>>
    /\ UNCHANGED <<mem, mmu>>
    /\ UNCHANGED dev

\* syscall_init: idt_set_gate(0x80, isr128, KERNEL_CS, 0xEF) and a message.
\* Nothing orders it against idt_init.
syscall_init ==
    /\ phase = "irq" /\ ipc.at \in {"boot", "idle"} /\ ~halted /\ ~syscall_ready
    /\ hstack = << >>
    /\ idt' = idt_set_gate(idt, 128, StubAddr(128), KERNEL_CS, flags_syscall_gate)
    /\ syscall_ready' = TRUE
    /\ itrace' = <<SetGate(128, StubAddr(128), KERNEL_CS, flags_syscall_gate),
                   Printf("[  OK  ] System call interface initialized (int 0x80, trap gate)\n", 0)>>
    /\ icall' = ICall("syscall_init", 0, NULL, 0, TRUE)
    /\ UNCHANGED <<irq_handlers, isr_handlers, line_owner, isr_owner, pic1_mask,
                   pic2_mask, ipc, halted, nops, iflag, idtr, pic1_base,
                   pic2_base>>
    /\ UNCHANGED <<mem, mmu>>
    /\ UNCHANGED dev

\* The identifiers the registration calls are tried with: both ends of each
\* controller's lines and of the exception range, and the neighbours outside.
IrqArgs == {-1, 0, 1, 8, IRQ_LINES - 1, IRQ_LINES}
IsrArgs == {-1, 0, 14, ISR_SLOTS - 1, ISR_SLOTS}

\* The range check letting the first identifier past the table through.
irq_out_of_range_above_16(irq) == irq < 0 \/ irq > IRQ_LINES
\* if (irq < 0 || irq >= 16)
irq_out_of_range(irq) == irq < 0 \/ irq >= IRQ_LINES
\* if (isr < 0 || isr >= 32)
isr_out_of_range(isr) == isr < 0 \/ isr >= ISR_SLOTS

\* Code outside the handlers running although a handler has not returned.
in_foreground_beside_handlers == TRUE
\* One processor: the code a handler interrupted continues only when every
\* handler entered has returned.
in_foreground == hstack = << >>

\* The entry leaving EFLAGS.IF alone whatever the gate.
if_on_entry_unchanged(g, if) == if
\* EFLAGS.IF after the processor entered the handler through gate g: an
\* interrupt gate (type 0xE) clears it, a trap gate (type 0xF) leaves it.
if_on_entry(g, if) == IF GateType(g) = 14 THEN FALSE ELSE if

\* A foreground call may start: idt_init has run, no call is in progress.
Foreground ==
    phase = "irq" /\ ipc.at = "idle" /\ ~halted /\ nops < MaxIrqOps /\ in_foreground

\* reqister_irq up to the store irq_handlers[irq] = handler.
reqister_irq ==
    /\ Foreground
    /\ \E irq \in IrqArgs, handler \in HandlerFns \cup {NULL} :
         IF irq_out_of_range(irq)
         THEN /\ icall' = ICall("reqister_irq", irq, handler, -1, TRUE)
              /\ UNCHANGED <<irq_handlers, line_owner, ipc>>
         ELSE /\ irq_handlers' = [irq_handlers EXCEPT ![irq] = handler]
              /\ line_owner' = [line_owner EXCEPT ![irq] = Owner("reqister_irq", handler)]
              /\ ipc' = At("reqister_irq", irq, handler)
              /\ icall' = ICall("reqister_irq", irq, handler, 0, FALSE)
    /\ itrace' = << >>
    /\ nops' = nops + 1
    /\ UNCHANGED <<isr_handlers, isr_owner, pic1_mask, pic2_mask, halted>>
    /\ UNCHANGED <<mem, cpu, mmu>>
    /\ UNCHANGED dev

\* reqister_irq from pic_unmask((uint8_t)irq) to return 0.
reqister_irq_unmask ==
    /\ phase = "irq" /\ ipc.at = "reqister_irq" /\ ~halted /\ in_foreground
    /\ LET port == pic_port(ipc.irq)
           value == pic_unmask_value(ipc.irq)
       IN outb_mask(port, value) /\ itrace' = <<Outb(port, value)>>
    /\ ipc' = At("idle", 0, NULL)
    /\ icall' = ICall("reqister_irq", ipc.irq, ipc.fn, 0, TRUE)
    /\ UNCHANGED <<irq_handlers, isr_handlers, line_owner, isr_owner, halted, nops>>
    /\ UNCHANGED <<mem, cpu, mmu>>
    /\ UNCHANGED dev

\* unregister_irq up to pic_mask((uint8_t)irq).
unregister_irq ==
    /\ Foreground
    /\ \E irq \in IrqArgs :
         IF irq_out_of_range(irq)
         THEN /\ icall' = ICall("unregister_irq", irq, NULL, -1, TRUE)
              /\ itrace' = << >>
              /\ UNCHANGED <<pic1_mask, pic2_mask, ipc>>
         ELSE LET port == pic_port(irq)
                  value == pic_mask_value(irq)
              IN /\ outb_mask(port, value)
                 /\ itrace' = <<Outb(port, value)>>
                 /\ ipc' = At("unregister_irq", irq, NULL)
                 /\ icall' = ICall("unregister_irq", irq, NULL, 0, FALSE)
    /\ nops' = nops + 1
    /\ UNCHANGED <<irq_handlers, isr_handlers, line_owner, isr_owner, halted>>
    /\ UNCHANGED <<mem, cpu, mmu>>
    /\ UNCHANGED dev

\* unregister_irq from irq_handlers[irq] = NULL to return 0.
unregister_irq_clear ==
    /\ phase = "irq" /\ ipc.at = "unregister_irq" /\ ~halted /\ in_foreground
    /\ irq_handlers' = [irq_handlers EXCEPT ![ipc.irq] = NULL]
    /\ line_owner' = [line_owner EXCEPT ![ipc.irq] = Owner("unregister_irq", NULL)]
    /\ ipc' = At("idle", 0, NULL)
    /\ icall' = ICall("unregister_irq", ipc.irq, NULL, 0, TRUE)
    /\ itrace' = << >>
    /\ UNCHANGED <<isr_handlers, isr_owner, pic1_mask, pic2_mask, halted, nops>>
    /\ UNCHANGED <<mem, cpu, mmu>>
    /\ UNCHANGED dev

\* The callbacks register_isr is called with: any driver callback or NULL for
\* any identifier, and paging_init's register_isr(14, page_fault_handler).
RegisterIsrArgs ==
    {<<isr, handler>> : isr \in IsrArgs, handler \in HandlerFns \cup {NULL}}
        \cup {<<14, page_fault_handler>>}

register_isr ==
    /\ Foreground
    /\ \E call \in RegisterIsrArgs :
         LET isr == call[1]
             handler == call[2]
         IN IF isr_out_of_range(isr)
            THEN /\ icall' = ICall("register_isr", isr, handler, -1, TRUE)
                 /\ UNCHANGED <<isr_handlers, isr_owner>>
            ELSE /\ isr_handlers' = [isr_handlers EXCEPT ![isr] = handler]
                 /\ isr_owner' = [isr_owner EXCEPT ![isr] = handler]
                 /\ icall' = ICall("register_isr", isr, handler, 0, TRUE)
    /\ itrace' = << >>
    /\ nops' = nops + 1
    /\ UNCHANGED <<irq_handlers, line_owner, pic1_mask, pic2_mask, ipc, halted>>
    /\ UNCHANGED <<mem, cpu, mmu>>
    /\ UNCHANGED dev

\* The page fault handler returning after its report.
handler_body_without_panic(fn) ==
    IF fn = page_fault_handler
    THEN <<Printf("PAGE FAULT!\n", 0),
           Printf("Faulty address:  %p\n", fault.cr2)>>
    ELSE << >>
\* What a callback does once invoked: a driver callback returns;
\* page_fault_handler reads CR2, prints its report and panics.
handler_body(fn) ==
    IF fn = page_fault_handler
    THEN <<Printf("PAGE FAULT!\n", 0),
           Printf("Faulty address:  %p\n", fault.cr2),
           Printf("Present:         %s\n", Bit(fault.err_code, 0)),
           Printf("Operation:       %s\n", Bit(fault.err_code, 1)),
           Printf("Mode:            %s\n", Bit(fault.err_code, 2)),
           Printf("Error code:      0x%x\n", fault.err_code),
           Panic("\nPage fault not handled - system halted.\n", 14, "")>>
    ELSE << >>

\* A panic is in the trace: cli, the message, then hlt for ever.
Fatal(trace) == \E k \in 1 .. Len(trace) : trace[k].ev = "panic"

\* The interrupt flag with panic's cli left out.
iflag_after_without_cli(trace, if) == if
\* The interrupt flag after a handler that ran behind an interrupt gate: the
\* gate clears it and the return restores it, panic's cli leaves it clear.
iflag_after(trace, if) == IF Fatal(trace) THEN FALSE ELSE if

\* The vectors the entry stubs hand to irq_handler and to isr_handler: both
\* ends of each range, a line of each controller, and the neighbours outside.
IrqVectors ==
    {IRQ_BASE - 1, IRQ_BASE, IRQ_BASE + 1, IRQ_BASE + 8,
     IRQ_BASE + IRQ_LINES - 1, IRQ_BASE + IRQ_LINES}
IsrVectors == {0, 14, ISR_SLOTS - 1, ISR_SLOTS, IRQ_BASE + IRQ_LINES}

\* The line computed from the neighbouring vector.
irq_of_next_line(int_no) == (int_no - IRQ_BASE + 1) % IRQ_LINES
\* int irq = (int)(int_no - 32)
irq_of(int_no) == int_no - IRQ_BASE

\* The dispatcher acknowledging only when a handler ran.
irq_dispatch_eoi_if_handled(int_no) ==
    IF int_no >= IRQ_BASE /\ int_no < IRQ_BASE + IRQ_LINES
    THEN LET irq == irq_of(int_no) IN
           IF irq_handlers[irq] # NULL
           THEN <<Invoke(irq_handlers[irq], int_no)>>
                  \o handler_body(irq_handlers[irq]) \o pic_send_eoi(irq)
           ELSE << >>
    ELSE << >>
\* irq_handler: what it does for vector int_no, in order.
irq_dispatch(int_no) ==
    IF int_no >= IRQ_BASE /\ int_no < IRQ_BASE + IRQ_LINES
    THEN LET irq == irq_of(int_no) IN
           (IF irq_handlers[irq] # NULL
            THEN <<Invoke(irq_handlers[irq], int_no)>>
                   \o handler_body(irq_handlers[irq])
            ELSE << >>)
             \o pic_send_eoi(irq)
    ELSE << >>

\* The interrupt gate runs irq_handler with interrupts off, so it is one step;
\* it may preempt a foreground call that is in progress.
irq_handler ==
    /\ phase = "irq" /\ iflag /\ nops < MaxIrqOps
    /\ \E int_no \in IrqVectors :
         LET trace == irq_dispatch(int_no) IN
           /\ itrace' = trace
           /\ halted' = (halted \/ Fatal(trace))
           /\ iflag' = iflag_after(trace, iflag)
           /\ icall' = ICall("irq_handler", int_no, NULL, 0, ~Fatal(trace))
    /\ nops' = nops + 1
    /\ UNCHANGED <<irq_handlers, isr_handlers, line_owner, isr_owner,
                   pic1_mask, pic2_mask, ipc>>
    /\ UNCHANGED <<idt, idtr, pic1_base, pic2_base, syscall_ready>>
    /\ UNCHANGED <<mem, mmu>>
    /\ UNCHANGED dev

\* The dispatcher returning silently when no handler is registered.
isr_dispatch_ignores_unhandled(int_no) ==
    IF int_no >= ISR_SLOTS
    THEN <<Panic("Invalid ISR number: %u\n", int_no, "")>>
    ELSE IF isr_handlers[int_no] # NULL
    THEN <<Invoke(isr_handlers[int_no], int_no)>>
           \o handler_body(isr_handlers[int_no])
    ELSE << >>
\* isr_handler: what it does for vector int_no, in order.
isr_dispatch(int_no) ==
    IF int_no >= ISR_SLOTS
    THEN <<Panic("Invalid ISR number: %u\n", int_no, "")>>
    ELSE IF isr_handlers[int_no] # NULL
    THEN <<Invoke(isr_handlers[int_no], int_no)>>
           \o handler_body(isr_handlers[int_no])
    ELSE <<Panic("Exception %u: %s\n", int_no, exception_messages[int_no + 1])>>

isr_handler ==
    /\ phase = "irq" /\ ipc.at # "boot" /\ ~halted /\ nops < MaxIrqOps
    /\ \E int_no \in IsrVectors :
         LET trace == isr_dispatch(int_no) IN
           /\ itrace' = trace
           /\ halted' = Fatal(trace)
           /\ iflag' = iflag_after(trace, iflag)
           /\ icall' = ICall("isr_handler", int_no, NULL, 0, ~Fatal(trace))
    /\ nops' = nops + 1
    /\ UNCHANGED <<irq_handlers, isr_handlers, line_owner, isr_owner,
                   pic1_mask, pic2_mask, ipc>>
    /\ UNCHANGED <<idt, idtr, pic1_base, pic2_base, syscall_ready>>
    /\ UNCHANGED <<mem, mmu>>
    /\ UNCHANGED dev

\* The addresses a load or store is tried at: both ends of the mapped region,
\* of the region behind the second table and of the address space.
AccessAddrs ==
    {0, KMEM_MAX - 1, KMEM_MAX, 2 * PT_ENTRIES * PAGE_SIZE - 1,
     2 * PT_ENTRIES * PAGE_SIZE, WordMod - 1}
\* The error codes the processor may push with vector 14: the P, W/R and U/S
\* bits in every combination.
ErrCodes == 0 .. 7

\* A load or store at virt_addr once paging_init has returned.  A translation
\* that is not present makes the processor store the address in CR2 and enter
\* gate 14 with an error code; the stub calls isr_handler, one step with
\* interrupts off.  A handler that returns restarts the access.
mem_access ==
    /\ phase \in {"paging", "run"} /\ ~halted /\ nops < MaxOps
    /\ \E virt_addr \in AccessAddrs, err_code \in ErrCodes :
         IF translate(virt_addr) # PageFault
         THEN /\ icall' = ICall("mem_access", virt_addr, NULL,
                                translate(virt_addr), TRUE)
              /\ itrace' = << >>
              /\ UNCHANGED <<fault, halted, iflag>>
         ELSE /\ fault' = [cr2 |-> virt_addr, err_code |-> err_code]
              /\ isr_handlers' = isr_handlers
              /\ itrace' = isr_dispatch(14)'
              /\ halted' = Fatal(itrace')
              /\ iflag' = iflag_after(itrace', iflag)
              /\ icall' = ICall("isr_handler", 14, NULL, 0, ~Fatal(itrace'))
    /\ nops' = nops + 1
    /\ UNCHANGED <<irq_handlers, isr_handlers, line_owner, isr_owner,
                   pic1_mask, pic2_mask, ipc>>
    /\ UNCHANGED <<idt, idtr, pic1_base, pic2_base, syscall_ready,
                   page_directory, page_tables>>
    /\ UNCHANGED mem
    /\ UNCHANGED dev

\* ------------------------------------- handlers, statement by statement
\* A handler that was entered and has not returned: which dispatcher, the
\* vector, how far it is, the slot value its test read (the system call number
\* for the system call handler), and EFLAGS.IF as the entry pushed it.
Frame(kind, int_no, at, fn, saved_if) ==
    [kind |-> kind, int_no |-> int_no, at |-> at, fn |-> fn, saved_if |-> saved_if]
Top == hstack[Len(hstack)]
Pop == SubSeq(hstack, 1, Len(hstack) - 1)
\* The innermost handler is the dispatcher kind standing at position at.
Running(kind, at) ==
    /\ phase = "irq" /\ ~halted /\ hstack # << >>
    /\ Top.kind = kind /\ Top.at = at

\* The lines devices raise: one of each controller besides the keyboard's.
RaisedLines == {0, 1, 8}
\* A device raises its line; the controller latches the request.
raise_irq ==
    /\ phase = "irq" /\ ipc.at # "boot" /\ ~halted /\ nops < MaxIrqOps
    /\ \E L \in RaisedLines \ irr :
         /\ irr' = irr \cup {L}
         /\ icall' = ICall("raise_irq", L, NULL, 0, TRUE)
    /\ itrace' = << >>
    /\ nops' = nops + 1
    /\ UNCHANGED <<irq_handlers, isr_handlers, line_owner, isr_owner, pic1_mask,
                   pic2_mask, ipc, halted, hstack, terminal_row,
                   terminal_column, tpc, cell>>
    /\ UNCHANGED <<mem, cpu, mmu>>

\* The controllers pass a raised line on when its mask bit is clear; a line of
\* the slave reaches the processor through line 2 of the master (ICW3).
Deliverable(L) ==
    /\ L \in irr
    /\ Bit(inb(pic_port(L)), pic_bit(L)) = 0
    /\ (L >= 8 => Bit(pic1_mask, 2) = 0)
\* The vector a controller sends for its line.
vector_of(L) == IF L < 8 THEN pic1_base + L ELSE pic2_base + (L - 8)

\* The processor accepts the interrupt of line L between two instructions of
\* whatever runs, if EFLAGS.IF is set, and enters the gate of its vector.  IF is
\* set by idt_init alone, after it has written the gates of all lines.
deliver_irq(L) ==
    /\ phase = "irq" /\ ~halted /\ iflag
    /\ Deliverable(L)
    /\ hstack' = Append(hstack, Frame("irq", vector_of(L), "entry", NULL, iflag))
    /\ iflag' = if_on_entry(Gate(idt, vector_of(L)), iflag)
    /\ irr' = irr \ {L}
    /\ icall' = ICall("deliver_irq", vector_of(L), NULL, L, FALSE)
    /\ itrace' = << >>
    /\ UNCHANGED <<irq_handlers, isr_handlers, line_owner, isr_owner, pic1_mask,
                   pic2_mask, ipc, halted, nops, terminal_row, terminal_column,
                   tpc, cell>>
    /\ UNCHANGED <<idt, idtr, pic1_base, pic2_base, syscall_ready>>
    /\ UNCHANGED <<mem, mmu>>

\* irq_handler up to the test if (irq_handlers[irq]): the first read of the
\* slot.  For a vector outside 32..47 it returns at once.
irq_handler_test ==
    /\ Running("irq", "entry")
    /\ LET int_no == Top.int_no IN
         IF int_no >= IRQ_BASE /\ int_no < IRQ_BASE + IRQ_LINES
         THEN /\ hstack' = Pop \o <<[Top EXCEPT !.at = "tested",
                                               !.fn = irq_handlers[irq_of(int_no)]]>>
              /\ icall' = ICall("irq_handler:test", int_no,
                                irq_handlers[irq_of(int_no)], 0, FALSE)
              /\ UNCHANGED iflag
         ELSE /\ hstack' = Pop
              /\ icall' = ICall("irq_handler:test", int_no, NULL, 0, TRUE)
              /\ iflag' = Top.saved_if
    /\ itrace' = << >>
    /\ UNCHANGED <<irq_handlers, isr_handlers, line_owner, isr_owner, pic1_mask,
                   pic2_mask, ipc, halted, nops, irr, terminal_row,
                   terminal_column, tpc, cell>>
    /\ UNCHANGED <<idt, idtr, pic1_base, pic2_base, syscall_ready>>
    /\ UNCHANGED <<mem, mmu>>

\* irq_handler from the call irq_handlers[irq](r), which reads the slot a
\* second time, through pic_send_eoi to the return of the stub (iret restores
\* the pushed EFLAGS).  A call through a slot that holds NULL jumps to address
\* 0: the machine is lost.
irq_handler_call ==
    /\ Running("irq", "tested")
    /\ LET irq == irq_of(Top.int_no)
           trace == (IF Top.fn # NULL
                     THEN <<Invoke(irq_handlers[irq], Top.int_no)>>
                            \o handler_body(irq_handlers[irq])
                     ELSE << >>)
                      \o pic_send_eoi(irq)
           lost == Top.fn # NULL /\ irq_handlers[irq] = NULL
       IN /\ itrace' = trace
          /\ halted' = (lost \/ Fatal(trace))
          /\ iflag' = IF lost \/ Fatal(trace) THEN FALSE ELSE Top.saved_if
          /\ hstack' = IF lost \/ Fatal(trace) THEN hstack ELSE Pop
          /\ icall' = ICall("irq_handler:call", Top.int_no, Top.fn, 0,
                            ~(lost \/ Fatal(trace)))
    /\ UNCHANGED <<irq_handlers, isr_handlers, line_owner, isr_owner, pic1_mask,
                   pic2_mask, ipc, nops, irr, terminal_row, terminal_column,
                   tpc, cell>>
    /\ UNCHANGED <<idt, idtr, pic1_base, pic2_base, syscall_ready>>
    /\ UNCHANGED <<mem, mmu>>

\* The system calls a program makes: exit, write, and an unknown number.
SyscallNums == {SYSCALL_EXIT, SYSCALL_WRITE, 0}
\* int 0x80 executed by the foreground program.  The processor enters gate
\* 0x80; if the gate is not present it raises a general protection fault
\* (vector 13) instead.
int_0x80 ==
    /\ Foreground
    /\ \E syscall_num \in SyscallNums :
         LET g == Gate(idt, 128)
             v == IF GatePresent(g) THEN 128 ELSE 13
         IN /\ hstack' = Append(hstack,
                   Frame(IF v = 128 THEN "syscall" ELSE "isr", v, "entry",
                         syscall_num, iflag))
            /\ iflag' = if_on_entry(Gate(idt, v), iflag)
            /\ icall' = ICall("int 0x80", v, NULL, syscall_num, FALSE)
    /\ itrace' = << >>
    /\ nops' = nops + 1
    /\ UNCHANGED <<irq_handlers, isr_handlers, line_owner, isr_owner, pic1_mask,
                   pic2_mask, ipc, halted, irr, terminal_row,
                   terminal_column, tpc, cell>>
    /\ UNCHANGED <<idt, idtr, pic1_base, pic2_base, syscall_ready>>
    /\ UNCHANGED <<mem, mmu>>

\* syscall_handler to its return; SYSCALL_EXIT never returns, it stays in its
\* hlt loop with EFLAGS.IF as the gate left it.
syscall_handler ==
    /\ Running("syscall", "entry")
    /\ IF Top.fn = SYSCALL_EXIT
       THEN /\ hstack' = Pop \o <<[Top EXCEPT !.at = "hlt"]>>
            /\ itrace' = <<Printf("\n[SYSCALL] User program exited with code %d\n", 0)>>
            /\ icall' = ICall("syscall_handler", Top.fn, NULL, 0, FALSE)
            /\ UNCHANGED iflag
       ELSE /\ hstack' = Pop
            /\ itrace' = IF Top.fn = SYSCALL_WRITE THEN << >>
                         ELSE <<Printf("[SYSCALL] Unknown system call: %u\n", Top.fn)>>
            /\ icall' = ICall("syscall_handler", Top.fn, NULL,
                              IF Top.fn = SYSCALL_WRITE THEN 0 ELSE -1, TRUE)
            /\ iflag' = Top.saved_if
    /\ UNCHANGED <<irq_handlers, isr_handlers, line_owner, isr_owner, pic1_mask,
                   pic2_mask, ipc, halted, nops, irr, terminal_row,
                   terminal_column, tpc, cell>>
    /\ UNCHANGED <<idt, idtr, pic1_base, pic2_base, syscall_ready>>
    /\ UNCHANGED <<mem, mmu>>

\* The exceptions an instruction may raise, wherever it runs.
RaisedExceptions == {0, 14}
\* An instruction of the foreground or of a handler raises an exception: the
\* processor enters the gate of its vector.
exception_entry ==
    /\ phase = "irq" /\ ipc.at # "boot" /\ ~halted /\ nops < MaxIrqOps
    /\ \E v \in RaisedExceptions :
         /\ hstack' = Append(hstack, Frame("isr", v, "entry", NULL, iflag))
         /\ iflag' = if_on_entry(Gate(idt, v), iflag)
         /\ icall' = ICall("exception", v, NULL, 0, FALSE)
    /\ itrace' = << >>
    /\ nops' = nops + 1
    /\ UNCHANGED <<irq_handlers, isr_handlers, line_owner, isr_owner, pic1_mask,
                   pic2_mask, ipc, halted, irr, terminal_row,
                   terminal_column, tpc, cell>>
    /\ UNCHANGED <<idt, idtr, pic1_base, pic2_base, syscall_ready>>
    /\ UNCHANGED <<mem, mmu>>

\* isr_handler for the exception entered, to the return of the stub or to the
\* halt of panic.
isr_handler_run ==
    /\ Running("isr", "entry")
    /\ LET trace == isr_dispatch(Top.int_no) IN
         /\ itrace' = trace
         /\ halted' = Fatal(trace)
         /\ iflag' = IF Fatal(trace) THEN iflag_after(trace, iflag) ELSE Top.saved_if
         /\ hstack' = IF Fatal(trace) THEN hstack ELSE Pop
         /\ icall' = ICall("isr_handler:run", Top.int_no, NULL, 0, ~Fatal(trace))
    /\ UNCHANGED <<irq_handlers, isr_handlers, line_owner, isr_owner, pic1_mask,
                   pic2_mask, ipc, nops, irr, terminal_row, terminal_column,
                   tpc, cell>>
    /\ UNCHANGED <<idt, idtr, pic1_base, pic2_base, syscall_ready>>
    /\ UNCHANGED <<mem, mmu>>

\* find_free_blocks alone, on the booted machine.
\* Every bitmap is one the allocator can be in (allocate every block singly,
\* free any subset), with blocks_used its number of set bits.
InitFind ==
    /\ phase = "find"
    /\ elf_sections_end = 0
    /\ frame_bitmap = [f \in Frames |-> FALSE]
    /\ paging_enabled = TRUE
    /\ heap_bitmap \in [Blocks -> BOOLEAN]
    /\ heap_start = 0
    /\ blocks_used = Cardinality({b \in Blocks : heap_bitmap[b]})
    /\ hdr = [b \in Blocks |-> Junk]
    /\ halted = FALSE
    /\ corrupt = FALSE
    /\ calls = << >>
    /\ frames_before = [f \in Frames |-> FALSE]
    /\ nops = 0
    /\ irq_handlers = [l \in Lines |-> NULL]
    /\ isr_handlers = [v \in Exceptions |->
                          IF v = 14 THEN page_fault_handler ELSE NULL]
    /\ isr_owner = isr_handlers
    /\ pic1_mask = 255 /\ pic2_mask = 255
    /\ ipc = At("idle", 0, NULL)
    /\ icall = ICall("register_isr", 14, page_fault_handler, 0, TRUE)
    /\ itrace = << >>
    /\ line_owner = [l \in Lines |-> Owner("none", NULL)]
    /\ idt = idt_after(EmptyIdt, idt_init_steps)
    /\ idtr = idtr_after([limit |-> 0, base |-> 0], idt_init_steps)
    /\ iflag = sti_after(FALSE, idt_init_steps)
    /\ pic1_base = 32 /\ pic2_base = 40
    /\ syscall_ready = FALSE
    /\ fault = [cr2 |-> 0, err_code |-> 0]
    /\ page_directory = setup_identity_mapping.directory
    /\ page_tables = setup_identity_mapping.tables
    /\ live = {}
    /\ DevInit

\* The masks the firmware may have left before idt_init.
BiosMasks == {0, 184, 255}
InitIrq ==
    /\ phase = "irq"
    /\ elf_sections_end = 0
    /\ frame_bitmap = [f \in Frames |-> FALSE]
    /\ paging_enabled = FALSE
    /\ heap_bitmap = [b \in Blocks |-> FALSE]
    /\ heap_start = 0
    /\ blocks_used = 0
    /\ hdr = [b \in Blocks |-> Junk]
    /\ halted = FALSE
    /\ corrupt = FALSE
    /\ calls = << >>
    /\ frames_before = [f \in Frames |-> FALSE]
    /\ nops = 0
    /\ IntrInit
    /\ pic1_mask \in BiosMasks /\ pic2_mask \in BiosMasks
    /\ CpuInit
    /\ MmuInit
    /\ live = {}
    /\ DevInit

\* pic_remap alone: the mask registers hold any of these bytes beforehand.
AnyMasks == {0, 1, 2, 4, 8, 16, 32, 64, 128, 143, 184, 255}
InitRemap ==
    /\ phase = "pic"
    /\ elf_sections_end = 0
    /\ frame_bitmap = [f \in Frames |-> FALSE]
    /\ paging_enabled = FALSE
    /\ heap_bitmap = [b \in Blocks |-> FALSE]
    /\ heap_start = 0
    /\ blocks_used = 0
    /\ hdr = [b \in Blocks |-> Junk]
    /\ halted = FALSE
    /\ corrupt = FALSE
    /\ calls = << >>
    /\ frames_before = [f \in Frames |-> FALSE]
    /\ nops = 0
    /\ IntrInit
    /\ pic1_mask \in AnyMasks /\ pic2_mask \in AnyMasks
    /\ CpuInit
    /\ MmuInit
    /\ live = {}
    /\ DevInit

\* --------------------------------------------------------- specifications
Boot ==
    \/ debug_initialize
    \/ idt_init
    \/ paging_init_frames \/ paging_init_mapping \/ paging_init_isr \/ paging_init
    \/ kheap_init

NextFrame == Boot \/ frame_alloc \/ frame_free
SpecFrame == Init /\ [][NextFrame]_vars

NextHeap == Boot \/ kmalloc \/ kfree
SpecHeap == Init /\ [][NextHeap]_vars

\* The heap under a correct caller: kfree only with live addresses.
NextLive == Boot \/ kmalloc \/ kfree_live
SpecLive == Init /\ [][NextLive]_vars

\* Both allocators on the booted machine.
NextBoth == Boot \/ frame_alloc \/ kmalloc
SpecBoth == Init /\ [][NextBoth]_vars

NextFind == find_probe
SpecFind == InitFind /\ [][NextFind]_vars

NextIrq ==
    \/ idt_init
    \/ reqister_irq \/ reqister_irq_unmask
    \/ unregister_irq \/ unregister_irq_clear
    \/ register_isr
    \/ irq_handler \/ isr_handler
SpecIrq == InitIrq /\ [][NextIrq]_vars

\* The processor with its handlers in progress: devices raise lines, the
\* foreground registers handlers and makes system calls, instructions raise
\* exceptions.
NextNest ==
    \/ idt_init \/ syscall_init
    \/ reqister_irq \/ reqister_irq_unmask
    \/ unregister_irq \/ unregister_irq_clear
    \/ raise_irq
    \/ (\E L \in Lines : deliver_irq(L))
    \/ irq_handler_test \/ irq_handler_call
    \/ int_0x80 \/ syscall_handler
    \/ exception_entry \/ isr_handler_run
SpecNest == InitIrq /\ [][NextNest]_vars

\* Registration and delivery alone.  The processor keeps executing: a call in
\* progress and a handler entered take their next step, and an interrupt that
\* is deliverable while EFLAGS.IF is set is accepted.
NextDeliver ==
    \/ idt_init
    \/ reqister_irq \/ reqister_irq_unmask
    \/ raise_irq
    \/ (\E L \in Lines : deliver_irq(L))
    \/ irq_handler_test \/ irq_handler_call
SpecDeliver ==
    /\ InitIrq /\ [][NextDeliver]_vars
    /\ WF_vars(reqister_irq_unmask)
    /\ \A L \in Lines : WF_vars(deliver_irq(L))
    /\ WF_vars(irq_handler_test) /\ WF_vars(irq_handler_call)

\* The gate table: both initialisations in either order, and the calls that
\* register and unregister handlers.
NextIdt ==
    \/ idt_init \/ syscall_init
    \/ reqister_irq \/ reqister_irq_unmask
    \/ unregister_irq \/ unregister_irq_clear
    \/ register_isr
SpecIdt == InitIrq /\ [][NextIdt]_vars

NextRemap == pic_remap_call
SpecRemap == InitRemap /\ [][NextRemap]_vars

\* The boot, then loads and stores anywhere in the address space.
NextPaging == Boot \/ mem_access
SpecPaging == Init /\ [][NextPaging]_vars

\* ----------------------------------------------------------------- claims
UsedBlocks == {b \in Blocks : heap_bitmap[b]}
AllFramesUsed(bm) == \A f \in Frames : bm[f]
\* ceil(a / b) over the integers, without wrap-around
CeilDiv(a, b) == (a + b - 1) \div b
\* The block a returned payload address starts at.
BlockOf(ret) == (ret - HEADER_SIZE - heap_start) \div HEAP_BLOCK_SIZE
Returned(c) == c.op = "kmalloc" /\ c.ret # NULL /\ c.ret # -1

\* C1: after kheap_init and any sequence of kmalloc and kfree calls, the number
\* of bits set in the heap block bitmap equals blocks_used.
C1_BitsEqualCounter ==
    phase = "run" => Cardinality(UsedBlocks) = blocks_used

\* C2: every successful kmalloc returns a block run that lies wholly inside the
\* identity-mapped region [0, KMEM_MAX).
C2_RunInsideMappedRegion ==
    Returned(Last) =>
        heap_start + (BlockOf(Last.ret) + blocks_needed_of(Last.arg)) * HEAP_BLOCK_SIZE
            <= KMEM_MAX

\* C3: with every frame allocated, frame_alloc returns the sentinel 0 and
\* changes nothing; otherwise the frame whose address it returns was free
\* before the call and is the only bit that changed.
C3_ExhaustionAndNoReissue ==
    Last.op = "frame_alloc" =>
        IF AllFramesUsed(frames_before)
        THEN Last.ret = 0 /\ frame_bitmap = frames_before
        ELSE LET f == Last.ret \div FRAME_SIZE IN
               /\ Last.ret = f * FRAME_SIZE
               /\ f \in Frames
               /\ ~frames_before[f]
               /\ frame_bitmap = [frames_before EXCEPT ![f] = TRUE]
C3_Witness ==
    /\ Last.op = "frame_alloc" /\ Last.ret = 0
    /\ AllFramesUsed(frames_before) /\ frame_bitmap = frames_before
    /\ elf_sections_end > 0

\* C4: immediately after frame_bitmap_init, frame f is marked used if and only
\* if f * FRAME_SIZE lies below elf_sections_end (f < ceil(end / FRAME_SIZE)).
C4_InitMarksKernelFrames ==
    Last.op = "paging_init" =>
        \A f \in Frames :
            frame_bitmap[f] <=> f < CeilDiv(elf_sections_end, FRAME_SIZE)
C4_Witness ==
    /\ Last.op = "paging_init"
    /\ elf_sections_end > FRAME_SIZE
    /\ frame_bitmap[0] /\ frame_bitmap[1] /\ ~frame_bitmap[NUM_FRAMES - 1]

\* C5: after paging_init, under any frame_alloc and frame_free calls, every
\* frame covering the kernel image stays marked used.
C5_KernelFramesStayUsed ==
    phase \in {"paging", "run"} =>
        \A f \in Frames : f * FRAME_SIZE < elf_sections_end => frame_bitmap[f]

\* C6: frame_alloc immediately followed by frame_free of the returned address
\* leaves the frame bitmap as it was before the frame_alloc.
C6_AllocFreeRoundTrip ==
    [][(Last.op = "frame_alloc" /\ Last'.op = "frame_free" /\ Last'.arg = Last.ret)
          => frame_bitmap' = frames_before]_vars

\* C7: frame_free with an address whose frame index is NUM_FRAMES or more
\* reports an error and leaves the frame bitmap unchanged.
C7_FreeBeyondRangeRejected ==
    (Last.op = "frame_free" /\ Last.arg \div FRAME_SIZE >= NUM_FRAMES) =>
        /\ frame_bitmap = frames_before
        /\ Last.msg = "frame_free: Invalid frame address"
C7_Witness ==
    /\ Last.op = "frame_free" /\ Last.arg = NUM_FRAMES * FRAME_SIZE
    /\ Last.msg = "frame_free: Invalid frame address"
    /\ frame_bitmap = frames_before /\ \E f \in Frames : frame_bitmap[f]

\* C8: find_free_blocks(count) returns the lowest i with blocks i .. i+count-1
\* all free and i + count <= HEAP_BLOCKS_MAX, and -1 exactly when there is none.
ValidStarts(bm, count) ==
    {i \in 0 .. HEAP_BLOCKS_MAX :
        /\ i + count <= HEAP_BLOCKS_MAX
        /\ \A k \in i .. i + count - 1 : ~bm[k]}
C8_LowestFit ==
    Last.op = "find_free_blocks" =>
        LET ok == ValidStarts(heap_bitmap, Last.arg) IN
          IF ok = {} THEN Last.ret = -1
          ELSE Last.ret \in ok /\ \A i \in ok : Last.ret <= i
\* the pattern [free, free, used, free, free, free, used] with count 3 yields 3
C8_Witness ==
    /\ Last.op = "find_free_blocks" /\ Last.arg = 3 /\ Last.ret = 3
    /\ \A b \in 0 .. 6 : heap_bitmap[b] <=> b \in {2, 6}

\* C9: on a fresh heap kmalloc(8) returns heap_start + 4 and the next kmalloc(8)
\* heap_start + 4 + HEAP_BLOCK_SIZE; and kmalloc(s) returning p, then kfree(p),
\* then kmalloc(s), with nothing in between, returns p again.
C9_FirstFitReuse ==
    /\ (Len(calls) = 3 /\ calls[1].op = "kheap_init"
          /\ calls[2].op = "kmalloc" /\ calls[2].arg = 8
          /\ calls[3].op = "kmalloc" /\ calls[3].arg = 8)
        => /\ calls[2].ret = heap_start + HEADER_SIZE
           /\ calls[3].ret = heap_start + HEADER_SIZE + HEAP_BLOCK_SIZE
    /\ (Len(calls) = 3 /\ calls[1].op = "kmalloc"
          /\ calls[2].op = "kfree" /\ calls[2].arg = calls[1].ret
          /\ calls[3].op = "kmalloc" /\ calls[3].arg = calls[1].arg)
        => calls[3].ret = calls[1].ret
\* a, b, kfree(b), c on a fresh heap: c is b, the second block's payload address
C9_Witness ==
    /\ nops = 4 /\ Len(calls) = 3
    /\ calls[1] = Call("kmalloc", 8, heap_start + HEADER_SIZE + HEAP_BLOCK_SIZE, "")
    /\ calls[2] = Call("kfree", calls[1].ret, 1, "")
    /\ calls[3] = calls[1]
    /\ heap_bitmap[0] /\ heap_bitmap[1]

\* C10: a successful kmalloc(size) flips exactly ceil((size + 4) / block size)
\* bits from free to used, a contiguous run, leaves every other bit, stores
\* that count in the header word at the run's first address, adds it to
\* blocks_used and returns the run's first address plus 4.
C10_KmallocEffect ==
    [][(nops' = nops + 1 /\ Returned(Last')) =>
          LET n == CeilDiv(Last'.arg + HEADER_SIZE, HEAP_BLOCK_SIZE)
              start == BlockOf(Last'.ret)
          IN /\ start \in Blocks /\ start + n <= HEAP_BLOCKS_MAX
             /\ Last'.ret = heap_start + start * HEAP_BLOCK_SIZE + HEADER_SIZE
             /\ \A b \in Blocks :
                    IF b \in start .. start + n - 1
                    THEN ~heap_bitmap[b] /\ heap_bitmap'[b]
                    ELSE heap_bitmap'[b] = heap_bitmap[b]
             /\ hdr'[start] = n
             /\ blocks_used' = blocks_used + n]_vars

\* C11: a rejected kmalloc changes no state: kmalloc(0), and kmalloc of a size
\* for which no free run long enough for size + 4 bytes exists, return NULL and
\* leave the block bitmap, blocks_used and every header word unchanged.
C11_RejectedKmallocChangesNothing ==
    [][(/\ nops' = nops + 1 /\ Last'.op = "kmalloc"
        /\ \/ Last'.arg = 0
           \/ ValidStarts(heap_bitmap,
                          CeilDiv(Last'.arg + HEADER_SIZE, HEAP_BLOCK_SIZE)) = {})
          => /\ Last'.ret = NULL
             /\ UNCHANGED <<heap_bitmap, blocks_used, hdr>>]_vars

\* C12: for every size whose true size + 4 bytes needs more than
\* HEAP_BLOCKS_MAX blocks, the sizes for which size + 4 wraps included, kmalloc
\* returns NULL and allocates nothing.
C12_OverCapacityFails ==
    [][(/\ nops' = nops + 1 /\ Last'.op = "kmalloc"
        /\ CeilDiv(Last'.arg + HEADER_SIZE, HEAP_BLOCK_SIZE) > HEAP_BLOCKS_MAX)
          => /\ Last'.ret = NULL
             /\ heap_bitmap' = heap_bitmap /\ blocks_used' = blocks_used]_vars

\* C13: kfree of a NULL pointer, of a pointer whose header address is below
\* heap_start or whose block index is HEAP_BLOCKS_MAX or more, or with a header
\* count of 0 or more than HEAP_BLOCKS_MAX, leaves the block bitmap and
\* blocks_used unchanged.  (Last'.ret of a kfree that went on to free is the
\* header count it read.)
C13_KfreeInvalidIsNoOp ==
    [][(nops' = nops + 1 /\ Last'.op = "kfree") =>
          LET ptr == Last'.arg
              header_addr == U32(ptr - HEADER_SIZE)
              block_idx == (header_addr - heap_start) \div HEAP_BLOCK_SIZE
              same == heap_bitmap' = heap_bitmap /\ blocks_used' = blocks_used
          IN /\ (ptr = NULL \/ header_addr < heap_start
                   \/ block_idx >= HEAP_BLOCKS_MAX) => same
             /\ ~same => Last'.ret \in 1 .. HEAP_BLOCKS_MAX]_vars
\* a live allocation exists and a kfree was refused for its header count
C13_Witness ==
    /\ Last.op = "kfree" /\ Last.msg = "[FAILED] kfree: Corrupted block count"
    /\ UsedBlocks # {} /\ blocks_used = Cardinality(UsedBlocks)

\* ------------------------------------------------ interrupt-core claims
\* Line L is masked at its controller: its bit in the mask register is set.
Masked(L) ==
    IF L < 8 THEN Bit(pic1_mask, L) = 1 ELSE Bit(pic2_mask, L - 8) = 1
\* The positions of the events of one kind in the newest step's trace.
At_(kind) == {k \in 1 .. Len(itrace) : itrace[k].ev = kind}
PortWrites(trace) == SelectSeq(trace, LAMBDA e : e.ev = "outb")
Callbacks(trace) == SelectSeq(trace, LAMBDA e : e.ev = "call")
IrqVector(v) == v >= IRQ_BASE /\ v < IRQ_BASE + IRQ_LINES
EoiMaster == Outb(PIC1_COMMAND, PIC_EOI)
EoiSlave == Outb(PIC2_COMMAND, PIC_EOI)
\* uint8_t line numbers: both ends of each controller's lines, the first
\* value past them and the largest.
EoiLines == {0, 7, 8, IRQ_LINES - 1, IRQ_LINES, 255}

\* C14: for every vector v in 32..47 handed to irq_handler exactly one
\* acknowledgment, pic_send_eoi for line v - 32, is issued, handler or not,
\* after the registered handler (if any) has returned; with no handler
\* nothing else happens and the dispatcher returns normally.
C14_OneAckAfterHandler ==
    (icall.op = "irq_handler" /\ IrqVector(icall.arg)) =>
        LET line == icall.arg - IRQ_BASE IN
          /\ Cardinality(At_("pic_send_eoi")) = 1
          /\ \A k \in At_("pic_send_eoi") :
                 /\ itrace[k].a = line
                 /\ \A j \in At_("call") : j < k
          /\ irq_handlers[line] # NULL => Cardinality(At_("call")) = 1
          /\ irq_handlers[line] = NULL =>
                 /\ At_("call") = {} /\ At_("panic") = {}
                 /\ itrace[1] = SendEoi(line)
                 /\ icall.returned /\ ~halted
\* a slave line with a handler: the callback, then the acknowledgment
C14_Witness ==
    /\ icall.op = "irq_handler" /\ icall.arg = IRQ_BASE + 8
    /\ irq_handlers[8] # NULL
    /\ itrace = <<Invoke(irq_handlers[8], IRQ_BASE + 8), SendEoi(8),
                  EoiSlave, EoiMaster>>

\* C15: pic_send_eoi(line) writes exactly one EOI to the master and none to
\* the slave when line < 8; for line >= 8 it writes one EOI to the slave and
\* then one to the master.
C15_EoiPorts ==
    /\ \A line \in EoiLines :
           PortWrites(pic_send_eoi(line)) =
               IF line < 8 THEN <<EoiMaster>> ELSE <<EoiSlave, EoiMaster>>
    /\ (icall.op = "irq_handler" /\ IrqVector(icall.arg)) =>
           PortWrites(itrace) =
               IF icall.arg - IRQ_BASE < 8 THEN <<EoiMaster>>
               ELSE <<EoiSlave, EoiMaster>>
\* the last slave line, nobody's: slave first, then master
C15_Witness ==
    /\ icall.op = "irq_handler" /\ icall.arg = IRQ_BASE + IRQ_LINES - 1
    /\ itrace = <<SendEoi(IRQ_LINES - 1), EoiSlave, EoiMaster>>

\* C16: reqister_irq and unregister_irq with irq outside [0, 16) and
\* register_isr with isr outside [0, 32) return -1 and leave both slot tables
\* and both mask registers unchanged.
C16_OutOfRangeRejected ==
    [][(/\ nops' = nops + 1
        /\ \/ /\ icall'.op \in {"reqister_irq", "unregister_irq"}
              /\ icall'.arg \notin 0 .. 15
           \/ /\ icall'.op = "register_isr"
              /\ icall'.arg \notin 0 .. 31)
          => /\ icall'.ret = -1 /\ icall'.returned
             /\ UNCHANGED <<irq_handlers, isr_handlers, pic1_mask, pic2_mask>>]_vars
\* the keyboard line is claimed and a registration for line 16 was refused
C16_Witness ==
    /\ icall = ICall("reqister_irq", IRQ_LINES, 1, -1, TRUE)
    /\ irq_handlers[1] # NULL /\ ~Masked(1)

\* C17: unregister_irq(line) masks the line before it clears the callback:
\* while the call is in progress and once it has returned, the line is masked
\* whenever its slot is cleared, and no callback is invoked for a line whose
\* unregister_irq has returned.
C17_MaskBeforeClear ==
    \A L \in Lines :
        /\ (ipc.at = "unregister_irq" /\ ipc.irq = L) => Masked(L)
        /\ line_owner[L].op = "unregister_irq" =>
               /\ irq_handlers[L] = NULL /\ Masked(L)
               /\ (icall.op = "irq_handler" /\ icall.arg = IRQ_BASE + L) =>
                      At_("call") = {}
\* inside the call: the line is already masked, its callback still in place
C17_Witness ==
    /\ ipc.at = "unregister_irq" /\ ipc.irq = 1
    /\ irq_handlers[1] # NULL /\ Masked(1)
    /\ line_owner[1].op = "reqister_irq"

\* C18: after idt_init, under any reqister_irq and unregister_irq calls, line
\* L is unmasked exactly when the most recent successful call for L was
\* reqister_irq; a line nobody has claimed stays masked.
C18_OptInMasking ==
    (phase = "irq" /\ ipc.at = "idle") =>
        \A L \in Lines : (~Masked(L)) <=> (line_owner[L].op = "reqister_irq")
\* a slave line claimed, the keyboard line given back, line 0 never claimed
C18_Witness ==
    /\ phase = "irq" /\ ipc.at = "idle"
    /\ line_owner[8].op = "reqister_irq" /\ ~Masked(8)
    /\ line_owner[1].op = "unregister_irq" /\ Masked(1)
    /\ line_owner[0].op = "none" /\ Masked(0)

\* C19: the callback invoked for vector v is the one most recently registered
\* for its slot (exception slot v below 32 through isr_handler, line slot
\* v - 32 for 32 <= v < 48 through irq_handler), no other callback is invoked,
\* and dispatch modifies neither slot table.
C19_DispatchRouting ==
    [][/\ \A L \in Lines : irq_handlers'[L] = line_owner'[L].fn
       /\ \A v \in Exceptions : isr_handlers'[v] = isr_owner'[v]
       /\ (nops' = nops + 1 /\ icall'.op = "irq_handler") =>
            /\ UNCHANGED <<irq_handlers, isr_handlers>>
            /\ Callbacks(itrace') =
                 IF IrqVector(icall'.arg)
                      /\ line_owner[icall'.arg - IRQ_BASE].fn # NULL
                 THEN <<Invoke(line_owner[icall'.arg - IRQ_BASE].fn, icall'.arg)>>
                 ELSE << >>
       /\ (nops' = nops + 1 /\ icall'.op = "isr_handler") =>
            /\ UNCHANGED <<irq_handlers, isr_handlers>>
            /\ Callbacks(itrace') =
                 IF icall'.arg < ISR_SLOTS /\ isr_owner[icall'.arg] # NULL
                 THEN <<Invoke(isr_owner[icall'.arg], icall'.arg)>>
                 ELSE << >>]_vars
\* lines 0 and 1 hold different callbacks; vector 33 ran line 1's
C19_Witness ==
    /\ icall.op = "irq_handler" /\ icall.arg = IRQ_BASE + 1
    /\ irq_handlers[0] = 2 /\ irq_handlers[1] = 1
    /\ Callbacks(itrace) = <<Invoke(1, IRQ_BASE + 1)>>

\* C20: for every exception vector v < 32, isr_handler invokes a registered
\* handler exactly once and does not panic itself; with none registered it
\* panics, naming the exception, and never returns to the interrupted code.
C20_ExceptionDispatch ==
    (icall.op = "isr_handler" /\ icall.arg < ISR_SLOTS) =>
        IF isr_handlers[icall.arg] # NULL
        THEN /\ Callbacks(itrace) = <<Invoke(isr_handlers[icall.arg], icall.arg)>>
             /\ \A k \in At_("panic") :
                    itrace[k].s \notin {"Exception %u: %s\n",
                                        "Invalid ISR number: %u\n"}
        ELSE /\ itrace = <<Panic("Exception %u: %s\n", icall.arg,
                                 exception_messages[icall.arg + 1])>>
             /\ halted /\ ~icall.returned
\* a division error with no handler registered
C20_Witness ==
    /\ icall.op = "isr_handler" /\ icall.arg = 0 /\ isr_handlers[0] = NULL
    /\ itrace[1].ev = "panic" /\ itrace[1].a = 0
    /\ itrace[1].t = "Division By Zero"
    /\ halted /\ ~icall.returned

\* C21: a vector of 48 or more that reaches a dispatch routine is fatal:
\* whether isr_handler or irq_handler receives it, the routine panics (a
\* diagnostic, then the permanent halt) and never returns silently.
C21_InvalidVectorFatal ==
    (icall.op \in {"irq_handler", "isr_handler"}
       /\ icall.arg >= IRQ_BASE + IRQ_LINES) =>
        /\ Fatal(itrace)
        /\ halted
        /\ ~icall.returned

\* C23: the halt is permanent.  Once a panic has been entered (an unhandled
\* exception, a page fault, an invalid vector) interrupt delivery is off, and
\* from then on no exception or IRQ handler runs and no allocator, slot-table
\* or mask state changes.
C23_HaltPermanent ==
    [][halted =>
         /\ ~iflag /\ ~iflag'
         /\ halted'
         /\ icall' = icall /\ itrace' = itrace
         /\ UNCHANGED <<irq_handlers, isr_handlers, pic1_mask, pic2_mask>>
         /\ UNCHANGED <<frame_bitmap, heap_bitmap, blocks_used, hdr>>]_vars
\* the machine halted on an unhandled exception while line 1 was unmasked with
\* a callback registered: the line's interrupt would run it were delivery on
C23_Witness ==
    /\ halted /\ ~iflag
    /\ icall.op = "isr_handler" /\ Fatal(itrace)
    /\ irq_handlers[1] # NULL /\ ~Masked(1)
    /\ nops < MaxIrqOps

C30_OneBitChanged ==
    [][LET masking == icall'.op = "unregister_irq" /\ ~icall'.returned
           unmasking == ipc.at = "reqister_irq" /\ ipc'.at = "idle"
           line == IF masking THEN icall'.arg ELSE ipc.irq
           own == IF line < 8 THEN pic1_mask ELSE pic2_mask
           own_after == IF line < 8 THEN pic1_mask' ELSE pic2_mask'
       IN (masking \/ unmasking) =>
            /\ line \in Lines
            /\ Bit(own_after, line % 8) = (IF masking THEN 1 ELSE 0)
            /\ \A k \in 0 .. 7 : k # line % 8 => Bit(own_after, k) = Bit(own, k)
            /\ own_after \in 0 .. 255
            /\ IF line < 8 THEN pic2_mask' = pic2_mask
               ELSE pic1_mask' = pic1_mask]_vars
\* line 8 has just been unmasked: bit 0 of the slave's register is clear, its
\* other bits and the master's register are as idt_init left them
C30_Witness ==
    /\ icall.op = "reqister_irq" /\ icall.returned /\ icall.arg = 8
    /\ icall.ret = 0
    /\ pic2_mask = 254 /\ pic1_mask = 255

Vectors == 0 .. IDT_NUM_ENTRIES - 1
\* A call that registers or unregisters a handler has just made a step.
RegistrationStep ==
    \/ icall'.op \in {"reqister_irq", "unregister_irq", "register_isr"}
         /\ icall' # icall
    \/ ipc.at \in {"reqister_irq", "unregister_irq"} /\ ipc'.at = "idle"

\* C26: immediately after idt_init every vector in 0..47 has a gate with the
\* present bit set, and every vector in 48..255 has an all-zero gate.
C26_GateTableComplete ==
    icall.op = "idt_init" =>
        /\ \A v \in 0 .. IRQ_BASE + IRQ_LINES - 1 : GatePresent(Gate(idt, v))
        /\ \A v \in IRQ_BASE + IRQ_LINES .. IDT_NUM_ENTRIES - 1 :
               Gate(idt, v) = ZeroGate
\* idt_init has just run on a table in which syscall_init had installed the
\* gate of vector 0x80
C26_Witness ==
    /\ icall.op = "idt_init" /\ syscall_ready
    /\ GatePresent(Gate(idt, 0)) /\ GatePresent(Gate(idt, 47))
    /\ Gate(idt, 48) = ZeroGate /\ Gate(idt, 255) = ZeroGate

\* C27: once idt_init and syscall_init have both run, in whichever order,
\* vectors 0..31 hold present interrupt gates at privilege 0 (0x8E) and vector
\* 0x80 holds a present trap gate at privilege 3 (0xEF); and no register or
\* unregister call changes any gate.
C27_GateKinds ==
    [][/\ (ipc'.at # "boot" /\ syscall_ready') =>
            /\ \A v \in Exceptions : Gate(idt', v).type_attr = 142
            /\ Gate(idt', 128).type_attr = 239
       /\ RegistrationStep => idt' = idt]_vars

\* C28: idt_init enables interrupt delivery only as its last step: at the
\* moment of the sti all gates of vectors 0..47 are installed, the controllers
\* have been remapped to offsets 32 and 40 with all 16 lines masked, and the
\* table register has been loaded with limit 256 * 8 - 1 and the table's
\* address.
C28_StiLast ==
    icall.op = "idt_init" =>
        LET k == LastIndex(itrace, "sti")
            before == SubSeq(itrace, 1, k - 1)
        IN /\ k = Len(itrace) /\ At_("sti") = {k}
           /\ iflag
           /\ \A t \in {EmptyIdt,
                        idt_set_gate(EmptyIdt, 128, StubAddr(128), KERNEL_CS,
                                     flags_syscall_gate)} :
                \A v \in 0 .. IRQ_BASE + IRQ_LINES - 1 :
                    /\ GatePresent(Gate(idt_after(t, before), v))
                    /\ Gate(idt_after(t, before), v) =
                         idt_entry(StubAddr(v), KERNEL_CS, flags_int_gate)
           /\ \A m1 \in BiosMasks, m2 \in BiosMasks :
                LET master == pic_after(Pic(m1, 8, "ocw", 0), PIC1_COMMAND,
                                        PIC1_DATA, PortWrites(before), 1)
                    slave == pic_after(Pic(m2, 112, "ocw", 0), PIC2_COMMAND,
                                       PIC2_DATA, PortWrites(before), 1)
                IN /\ master.imr = 255 /\ master.base = 32 /\ master.next = "ocw"
                   /\ slave.imr = 255 /\ slave.base = 40 /\ slave.next = "ocw"
           /\ idtr_after([limit |-> 0, base |-> 0], before) =
                [limit |-> 256 * 8 - 1, base |-> IdtAddr]
           /\ pic1_mask = 255 /\ pic2_mask = 255
           /\ pic1_base = 32 /\ pic2_base = 40
           /\ idtr = [limit |-> 2047, base |-> IdtAddr]
           /\ \A v \in 0 .. IRQ_BASE + IRQ_LINES - 1 : GatePresent(Gate(idt, v))
\* idt_init has just returned with interrupts on, its last statement the sti
C28_Witness ==
    /\ icall.op = "idt_init" /\ iflag
    /\ itrace[Len(itrace)].ev = "sti"
    /\ idtr.limit = 2047
    /\ pic1_mask = 255 /\ pic2_mask = 255

\* The identity mapping is in place: every address below KMEM_MAX translates
\* to itself, every other address is not present.
IdentityMapped ==
    \A addr \in 0 .. WordMod - 1 :
        walk(page_directory, page_tables, addr) =
            IF addr < KMEM_MAX THEN addr ELSE PageFault
KernelFramesUsed ==
    \A f \in Frames : f < kernel_frames(elf_sections_end) => frame_bitmap[f]

\* C22: every page fault is fatal.  After paging_init an access outside the
\* identity-mapped region raises vector 14; the dispatcher invokes
\* page_fault_handler exactly once, with that faulting address; for every
\* error code the handler ends in the halt and never returns to the faulting
\* instruction.  An access that does not fault is inside the region.
C22_PageFaultFatal ==
    /\ icall.op = "mem_access" =>
         /\ icall.arg < KMEM_MAX
         /\ icall.ret = icall.arg
    /\ (icall.op = "isr_handler" /\ phase \in {"paging", "run"}) =>
         /\ icall.arg = 14
         /\ fault.cr2 >= KMEM_MAX
         /\ Callbacks(itrace) = <<Invoke(page_fault_handler, 14)>>
         /\ \E k \in At_("printf") :
                itrace[k].s = "Faulty address:  %p\n" /\ itrace[k].a = fault.cr2
         /\ itrace[Len(itrace)] =
                Panic("\nPage fault not handled - system halted.\n", 14, "")
         /\ halted /\ ~iflag
         /\ ~icall.returned
\* a store just past the mapped region, error code 7, once the heap is up
C22_Witness ==
    /\ phase = "run" /\ halted
    /\ icall.op = "isr_handler" /\ icall.arg = 14
    /\ fault = [cr2 |-> KMEM_MAX, err_code |-> 7]
    /\ Callbacks(itrace) = <<Invoke(page_fault_handler, 14)>>

\* C24: paging_init performs its steps in the mandated order: the frame
\* bitmap is initialised first, then the identity mapping is built and the
\* page fault handler is registered in slot 14, and translation is enabled
\* last; at the instant paging is enabled the kernel frames are marked used,
\* every page of [0, KMEM_MAX) is mapped and slot 14 holds page_fault_handler.
C24_PagingInitOrder ==
    [][/\ phase' = "paging_init:1" /\ phase # "paging_init:1" =>
            /\ frame_bitmap' = frame_bitmap_init(elf_sections_end)
            /\ page_directory' = ZeroDirectory /\ page_tables' = ZeroTables
            /\ isr_handlers'[14] = NULL
            /\ ~paging_enabled'
       /\ (page_directory' # page_directory \/ page_tables' # page_tables
             \/ isr_handlers'[14] # isr_handlers[14]) =>
            /\ phase \in {"paging_init:1", "paging_init:2"}
            /\ frame_bitmap = frame_bitmap_init(elf_sections_end)
            /\ frame_bitmap' = frame_bitmap
            /\ ~paging_enabled'
       /\ (paging_enabled' /\ ~paging_enabled) =>
            /\ KernelFramesUsed /\ KernelFramesUsed'
            /\ IdentityMapped /\ IdentityMapped'
            /\ isr_handlers[14] = page_fault_handler
            /\ isr_handlers'[14] = page_fault_handler]_vars
\* paging has just been enabled with a two-frame kernel
C24_Witness ==
    /\ phase = "paging" /\ paging_enabled
    /\ Last.op = "paging_init"
    /\ elf_sections_end = 2 * FRAME_SIZE
    /\ frame_bitmap[0] /\ frame_bitmap[1] /\ ~frame_bitmap[2]
    /\ isr_handlers[14] = page_fault_handler
    /\ IdentityMapped

\* C25: after setup_identity_mapping, for every page number p of
\* [0, KMEM_MAX) the page-table entry of virtual page p holds frame number p
\* above the flag bits with exactly the present and writable flags set;
\* directory entries 0 and 1 are present and point at the two static tables
\* and every other directory entry is zero; so translation maps each address
\* below KMEM_MAX to itself and every address at or above it is not present.
C25_IdentityMapping ==
    phase \in {"paging_init:2", "paging_init:3", "paging", "run"} =>
        /\ \A p \in 0 .. KmemPages - 1 :
             LET pte == page_tables[p \div PT_ENTRIES][p % PT_ENTRIES] IN
               /\ pte \div PAGE_SIZE = p
               /\ pte % PAGE_SIZE = PTE_PRESENT + PTE_WRITABLE
        /\ \A i \in 0 .. PD_ENTRIES - 1 :
             IF i \in {0, 1}
             THEN /\ page_directory[i].table = i
                  /\ page_directory[i].flags % 2 = PDE_PRESENT
             ELSE page_directory[i] = Pde(NoTable, 0)
        /\ IdentityMapped
\* setup_identity_mapping has just returned: the last page of the region is
\* mapped to itself, translation is still off
C25_Witness ==
    /\ phase = "paging_init:2" /\ ~paging_enabled
    /\ page_tables[(KmemPages - 1) \div PT_ENTRIES][(KmemPages - 1) % PT_ENTRIES]
         = (KmemPages - 1) * PAGE_SIZE + 3
    /\ walk(page_directory, page_tables, KMEM_MAX - 1) = KMEM_MAX - 1
    /\ walk(page_directory, page_tables, KMEM_MAX) = PageFault

\* The blocks of a run.
RunBlocks(a) == a.start .. (a.start + a.n - 1)

\* C32: under any sequence of kmalloc calls and kfree calls on live pointers,
\* live allocations never overlap: every live allocation owns the block its
\* address lies in, the block runs of the live allocations are pairwise
\* disjoint, and every block of a live run is a block of the heap that the
\* bitmap marks used.
C32_LiveRunsDisjoint ==
    phase = "run" =>
        /\ \A a \in live :
               /\ BlockOf(a.ptr) \in RunBlocks(a)
               /\ \A b \in RunBlocks(a) : b \in Blocks /\ heap_bitmap[b]
        /\ \A a \in live, b \in live :
               a # b => RunBlocks(a) \cap RunBlocks(b) = {}

\* C33: whenever kfree clears bits, for whatever pointer and header word,
\* every block index it clears is below HEAP_BLOCKS_MAX:
\* start_block + blocks_to_free <= HEAP_BLOCKS_MAX.
C33_KfreeInsideBitmap ==
    (phase = "run" /\ Last.op = "kfree" /\ Last.ret >= 1) =>
        /\ BlockOf(Last.arg) + Last.ret <= HEAP_BLOCKS_MAX
        /\ ~corrupt

\* C34: for every kernel end and every sequence of frame_alloc and frame_free
\* calls, a frame_alloc that allocated a frame (it set a bit of the bitmap)
\* returned a nonzero address: a return value of 0 always means no frame was
\* allocated.
C34_ZeroMeansNoFrame ==
    (phase = "run" /\ Last.op = "frame_alloc") =>
        (Last.ret = 0 => frame_bitmap = frames_before)

\* The frames frame_alloc has handed out: set now, clear after frame_bitmap_init.
FramesHandedOut ==
    {f \in Frames : frame_bitmap[f] /\ ~frame_bitmap_init(elf_sections_end)[f]}
\* The bytes of a frame and of a heap run.
FrameBytes(f) == (f * FRAME_SIZE) .. ((f + 1) * FRAME_SIZE - 1)
RunBytes(a) ==
    (heap_start + a.start * HEAP_BLOCK_SIZE)
        .. (heap_start + (a.start + a.n) * HEAP_BLOCK_SIZE - 1)

\* C35: after paging_init and kheap_init, for any sequence of frame_alloc and
\* kmalloc calls, no frame returned by frame_alloc overlaps the address range
\* of a block run returned by kmalloc.
C35_AllocatorsDisjoint ==
    phase = "run" =>
        \A f \in FramesHandedOut, a \in live :
            FrameBytes(f) \cap RunBytes(a) = {}

\* C31: in any interleaving of foreground code, system calls and hardware
\* interrupts, no IRQ handler starts while another IRQ handler or an exception
\* handler is still running: whatever an IRQ handler pre-empted is foreground
\* code or the system call handler behind the trap gate.
C31_HandlersNotReentered ==
    \A k \in 1 .. Len(hstack) :
        hstack[k].kind = "irq" =>
            \A j \in 1 .. k - 1 : hstack[j].kind = "syscall"

\* an IRQ handler runs having pre-empted the system call handler, which the
\* foreground entered through gate 0x80 with interrupts left enabled
C31_Witness ==
    /\ Len(hstack) = 2
    /\ hstack[1].kind = "syscall" /\ hstack[2].kind = "irq"
    /\ hstack[2].at = "tested" /\ hstack[2].fn # NULL
    /\ ~iflag

Claimed(L, h) ==
    /\ h # NULL
    /\ irq_handlers[L] = h
    /\ line_owner[L] = Owner("reqister_irq", h)
    /\ ~(ipc.at = "reqister_irq" /\ ipc.irq = L)
\* irq_handler has invoked h for the vector of line L.
Dispatched(L, h) ==
    /\ icall.op = "irq_handler:call"
    /\ icall.arg = IRQ_BASE + L
    /\ \E k \in At_("call") : itrace[k] = Invoke(h, IRQ_BASE + L)

\* C36: after idt_init and a successful reqister_irq(L, h), an interrupt
\* raised on line L is eventually dispatched to h, for as long as the
\* registration stands; for a line of the slave this needs the master's
\* cascade line 2 unmasked as well.
C36_ClaimedLineDelivered ==
    \A L \in RaisedLines : \A h \in HandlerFns :
        (Claimed(L, h) /\ L \in irr) ~> (Dispatched(L, h) \/ ~Claimed(L, h))

\* --------------------------------------------------------------- terminal
\* tty.c:82-134 and keyboard.c:145-170. The foreground terminal_putchar is
\* taken one statement at a time, so that the keyboard interrupt can arrive
\* between any two of them; the interrupt's own terminal_putchar runs whole,
\* because vector 33 is entered through an interrupt gate and nothing in the
\* handler sets IF. terminal_scroll and vga_update_cursor touch only cells
\* inside the buffer and the cursor ports, and are left out.
NEWLINE == 10
Chars == {NEWLINE, 97}
\* terminal_check_scroll, as a function of terminal_row
check_scroll_row(row) == IF row = VGA_HEIGHT THEN VGA_HEIGHT - 1 ELSE row
\* terminal_putchar(c) run from its first statement to its last without
\* interruption: the cursor it leaves and the cell it writes.
terminal_putchar_whole(c, row, column, by) ==
    IF c = NEWLINE
    THEN [row |-> check_scroll_row(row + 1), column |-> 0, cell |-> NoCell]
    ELSE IF column + 1 = VGA_WIDTH
         THEN [row |-> check_scroll_row(row + 1), column |-> 0,
               cell |-> Cell(column, row, by)]
         ELSE [row |-> row, column |-> column + 1, cell |-> Cell(column, row, by)]

\* The screen in use: idt_init has run, keyboard_initialize has registered
\* its callback on line 1, and earlier output has left the cursor anywhere
\* inside the buffer; the corners are enough.
StartRows == {0, VGA_HEIGHT - 2, VGA_HEIGHT - 1}
StartColumns == {0, VGA_WIDTH - 2, VGA_WIDTH - 1}
InitTty ==
    /\ phase = "tty"
    /\ elf_sections_end = 0
    /\ frame_bitmap = [f \in Frames |-> FALSE]
    /\ paging_enabled = FALSE
    /\ heap_bitmap = [b \in Blocks |-> FALSE]
    /\ heap_start = 0
    /\ blocks_used = 0
    /\ hdr = [b \in Blocks |-> Junk]
    /\ halted = FALSE
    /\ corrupt = FALSE
    /\ calls = << >>
    /\ frames_before = [f \in Frames |-> FALSE]
    /\ nops = 0
    /\ irq_handlers = [l \in Lines |-> IF l = 1 THEN 1 ELSE NULL]
    /\ isr_handlers = [v \in Exceptions |-> NULL]
    /\ ipc = At("idle", 0, NULL)
    /\ icall = NoICall
    /\ itrace = << >>
    /\ line_owner = [l \in Lines |-> IF l = 1 THEN Owner("reqister_irq", 1)
                                              ELSE Owner("none", NULL)]
    /\ isr_owner = [v \in Exceptions |-> NULL]
    /\ pic1_mask = 253 /\ pic2_mask = 255
    /\ iflag = TRUE
    /\ idt = idt_after(EmptyIdt, idt_init_steps)
    /\ idtr = idtr_after([limit |-> 0, base |-> 0], idt_init_steps)
    /\ pic1_base = IRQ_BASE /\ pic2_base = IRQ_BASE + 8
    /\ syscall_ready = FALSE
    /\ MmuInit
    /\ live = {}
    /\ hstack = << >>
    /\ irr = {}
    /\ terminal_row \in StartRows
    /\ terminal_column \in StartColumns
    /\ tpc = Tpc("idle", 0, 0)
    /\ cell = NoCell

\* what no terminal step changes
TtyFrame ==
    /\ UNCHANGED <<mem, intr, cpu, mmu, halted, hstack, irr>>

\* tty.c:125-134: the foreground calls terminal_putchar(c) (through printf,
\* putchar and terminal_write) and takes the branch on uc == '\n'.
terminal_putchar ==
    /\ phase = "tty" /\ tpc.at = "idle" /\ nops < MaxChars
    /\ \E c \in Chars :
        tpc' = Tpc(IF c = NEWLINE THEN "newline:column" ELSE "putentryat", c, 0)
    /\ nops' = nops + 1
    /\ cell' = NoCell
    /\ UNCHANGED <<terminal_row, terminal_column>>
    /\ TtyFrame

\* tty.c:56-59, called at tty.c:131 with terminal_column and terminal_row
terminal_putentryat ==
    /\ phase = "tty" /\ tpc.at = "putentryat"
    /\ cell' = Cell(terminal_column, terminal_row, "foreground")
    /\ tpc' = Tpc("advance:increment", tpc.c, 0)
    /\ UNCHANGED <<terminal_row, terminal_column, nops>>
    /\ TtyFrame

\* tty.c:106: ++terminal_column, the new value also kept in a register
terminal_advance_increment ==
    /\ phase = "tty" /\ tpc.at = "advance:increment"
    /\ terminal_column' = terminal_column + 1
    /\ tpc' = Tpc("advance:compare", tpc.c, terminal_column + 1)
    /\ cell' = NoCell
    /\ UNCHANGED <<terminal_row, nops>>
    /\ TtyFrame

\* tty.c:106: ... == VGA_WIDTH. terminal_column is not volatile: the build
\* may compare the register or read the variable again.
terminal_advance_compare ==
    /\ phase = "tty" /\ tpc.at = "advance:compare"
    /\ \E v \in {tpc.reg, terminal_column} :
        tpc' = IF v = VGA_WIDTH THEN Tpc("advance:column", tpc.c, 0)
                                ELSE Tpc("idle", 0, 0)
    /\ cell' = NoCell
    /\ UNCHANGED <<terminal_row, terminal_column, nops>>
    /\ TtyFrame

\* tty.c:107 and tty.c:94: terminal_column = 0
terminal_column_reset ==
    /\ phase = "tty" /\ tpc.at \in {"advance:column", "newline:column"}
    /\ terminal_column' = 0
    /\ tpc' = Tpc("row", tpc.c, 0)
    /\ cell' = NoCell
    /\ UNCHANGED <<terminal_row, nops>>
    /\ TtyFrame

\* tty.c:108 and tty.c:95: terminal_row++
terminal_row_increment ==
    /\ phase = "tty" /\ tpc.at = "row"
    /\ terminal_row' = terminal_row + 1
    /\ tpc' = Tpc("check_scroll", tpc.c, 0)
    /\ cell' = NoCell
    /\ UNCHANGED <<terminal_column, nops>>
    /\ TtyFrame

\* tty.c:83: if (terminal_row == VGA_HEIGHT)
terminal_check_scroll ==
    /\ phase = "tty" /\ tpc.at = "check_scroll"
    /\ tpc' = IF terminal_row = VGA_HEIGHT THEN Tpc("scroll", tpc.c, 0)
                                           ELSE Tpc("idle", 0, 0)
    /\ cell' = NoCell
    /\ UNCHANGED <<terminal_row, terminal_column, nops>>
    /\ TtyFrame

\* tty.c:84-85: terminal_scroll(); terminal_row = VGA_HEIGHT - 1
terminal_scroll ==
    /\ phase = "tty" /\ tpc.at = "scroll"
    /\ terminal_row' = VGA_HEIGHT - 1
    /\ tpc' = Tpc("idle", 0, 0)
    /\ cell' = NoCell
    /\ UNCHANGED <<terminal_column, nops>>
    /\ TtyFrame

\* keyboard.c:76-111: the table entries of the keys pressed here
Scancodes == {28, 29, 30, 158}
scancode_to_ascii(sc) == IF sc = 28 THEN NEWLINE ELSE IF sc = 30 THEN 97 ELSE 0

\* keyboard.c:145-170, entered from irq_handler for vector 33 wherever the
\* foreground stands: status byte and scancode come from the controller.
keyboard_on_irq ==
    /\ phase = "tty" /\ nops < MaxChars
    /\ iflag /\ irq_handlers[1] # NULL /\ Bit(pic1_mask, 1) = 0
    /\ \E status \in {0, KBD_STATUS_OBF}, sc \in Scancodes :
        LET c == IF sc < 128 THEN scancode_to_ascii(sc) ELSE 0
            echo == status % 2 # 0 /\ (sc \div 128) % 2 = 0 /\ c # 0
            after == terminal_putchar_whole(c, terminal_row, terminal_column,
                                            "keyboard_on_irq")
        IN /\ terminal_row' = IF echo THEN after.row ELSE terminal_row
           /\ terminal_column' = IF echo THEN after.column ELSE terminal_column
           /\ cell' = IF echo THEN after.cell ELSE NoCell
    /\ nops' = nops + 1
    /\ UNCHANGED tpc
    /\ TtyFrame

NextTty ==
    \/ terminal_putchar \/ terminal_putentryat
    \/ terminal_advance_increment \/ terminal_advance_compare
    \/ terminal_column_reset \/ terminal_row_increment
    \/ terminal_check_scroll \/ terminal_scroll
    \/ keyboard_on_irq
SpecTty == InitTty /\ [][NextTty]_vars

\* C38: every character cell terminal_putchar writes lies inside the 80x25
\* text buffer, for any characters and however the keyboard interrupt's echo
\* falls between the statements of the foreground's terminal_putchar.
C38_WritesInsideBuffer ==
    cell.by # "none" => (cell.x < VGA_WIDTH /\ cell.y < VGA_HEIGHT)

\* ----------------------------------------------------------------- serial
\* serial.c:20-48 and serial.c:136-147, with the screen output of printf.
SerialPorts == {SERIAL_COM1_BASE, SERIAL_COM2_BASE}
BaudDivisors == {SERIAL_BAUD_115200, SERIAL_BAUD_38400, SERIAL_BAUD_9600}
\* what the data register gives back after the test byte was written, and
\* what the line status register shows while serial_write_char waits
DataBytes == {LOOPBACK_BYTE, 0, 255}
StatusBytes == {0, 96}

\* serial_setup(port, baud_divisor) with `data` read back from the data
\* register: the port writes it makes and the value it returns.
serial_setup(port, baud_divisor, data) ==
    LET head == << Outb(port + SERIAL_INTERRUPT_ENABLE_REG, 0),
                   Outb(port + SERIAL_LINE_CONTROL_REG, SERIAL_LINE_DLAB),
                   Outb(port + SERIAL_DIVISOR_LSB_REG, baud_divisor % 256),
                   Outb(port + SERIAL_DIVISOR_MSB_REG, (baud_divisor \div 256) % 256),
                   Outb(port + SERIAL_LINE_CONTROL_REG, SERIAL_LINE_8N1),
                   Outb(port + SERIAL_FIFO_CONTROL_REG, SERIAL_FIFO_SETUP),
                   Outb(port + SERIAL_MODEM_CONTROL_REG,
                        SERIAL_MODEM_DTR + SERIAL_MODEM_RTS + SERIAL_MODEM_OUT2),
                   Outb(port + SERIAL_DATA_REG, LOOPBACK_BYTE) >>
    IN IF data # LOOPBACK_BYTE
       THEN [writes |-> head, ret |-> 1]
       ELSE [writes |-> Append(head,
                 Outb(port + SERIAL_MODEM_CONTROL_REG,
                      SERIAL_MODEM_DTR + SERIAL_MODEM_RTS + SERIAL_MODEM_OUT1
                      + SERIAL_MODEM_OUT2)),
             ret |-> 0]

\* the number of digits printf writes for value in the given base
RECURSIVE Digits(_, _)
Digits(value, base) == IF value < base THEN 1 ELSE 1 + Digits(value \div base, base)
\* the cursor after terminal_write has put n characters other than '\n',
\* starting inside the buffer: terminal_advance_cursor wraps at every
\* VGA_WIDTH-th column and terminal_check_scroll holds the row at the last.
terminal_write(n, row, column) ==
    LET wraps == (column + n) \div VGA_WIDTH
    IN [row |-> IF row + wraps >= VGA_HEIGHT THEN VGA_HEIGHT - 1 ELSE row + wraps,
        column |-> (column + n) % VGA_WIDTH]
\* the cursor after printf has put a line of n characters and its '\n'
printf_line(n, cursor) ==
    LET end == terminal_write(n, cursor.row, cursor.column)
        after == terminal_putchar_whole(NEWLINE, end.row, end.column, "printf")
    IN [row |-> after.row, column |-> after.column]

SUCCESS_MSG == "Serial port initialization successful!\n"
PORT_MSG == "Serial port: 0x%x, Serial Baud Rate: %d\n"
FAILED_MSG == "Warning: Serial port initialization failed!\n"
WriteString(port, str) == Event("serial_write_string", port, 0, 0, 0, str, "")
Banner(port) ==
    << WriteString(port, "=======================================\n"),
       WriteString(port, "Olympos Serial Debug Output\n"),
       WriteString(port, "=======================================\n\n") >>

InitSerial ==
    /\ phase = "serial"
    /\ elf_sections_end = 0
    /\ frame_bitmap = [f \in Frames |-> FALSE]
    /\ paging_enabled = FALSE
    /\ heap_bitmap = [b \in Blocks |-> FALSE]
    /\ heap_start = 0
    /\ blocks_used = 0
    /\ hdr = [b \in Blocks |-> Junk]
    /\ halted = FALSE
    /\ corrupt = FALSE
    /\ calls = << >>
    /\ frames_before = [f \in Frames |-> FALSE]
    /\ nops = 0
    /\ IntrInit
    /\ pic1_mask = 184 /\ pic2_mask = 143
    /\ CpuInit
    /\ MmuInit
    /\ live = {}
    /\ hstack = << >>
    /\ irr = {}
    /\ terminal_row \in 0 .. VGA_HEIGHT - 1
    /\ terminal_column = 0
    /\ tpc = Tpc("idle", 0, 0)
    /\ cell = NoCell

\* serial.c:136-147. serial_write_char waits for the transmitter: a port
\* whose status never shows THRE keeps serial_initialize in its first
\* serial_write_string for ever, after both printf lines.
serial_initialize ==
    /\ phase = "serial" /\ ipc.at = "boot" /\ nops < MaxIrqOps
    /\ \E port \in SerialPorts, baud_divisor \in BaudDivisors,
          data \in DataBytes, status \in StatusBytes :
        LET setup == serial_setup(port, baud_divisor, data)
            ready == (status \div SERIAL_LINE_STATUS_THRE) % 2 = 1
            cursor == [row |-> terminal_row, column |-> terminal_column]
            rate == 115200 \div baud_divisor
            said == IF setup.ret # 0
                    THEN << Event("printf", 0, 0, 0, 0, SUCCESS_MSG, ""),
                            Event("printf", port, rate, 0, 0, PORT_MSG, "") >>
                    ELSE << Event("printf", 0, 0, 0, 0, FAILED_MSG, "") >>
            after == IF setup.ret # 0
                     THEN printf_line(35 + Digits(port, 16) + Digits(rate, 10),
                                      printf_line(38, cursor))
                     ELSE printf_line(43, cursor)
            sent == IF setup.ret # 0 /\ ready THEN Banner(port) ELSE << >>
        IN /\ itrace' = setup.writes \o said \o sent
           /\ icall' = ICall("serial_initialize", port, NULL, setup.ret,
                             setup.ret = 0 \/ ready)
           /\ ipc' = IF setup.ret = 0 \/ ready THEN ipc
                     ELSE At("serial_write_char", 0, NULL)
           /\ terminal_row' = after.row
           /\ terminal_column' = after.column
    /\ nops' = nops + 1
    /\ UNCHANGED <<irq_handlers, isr_handlers, pic1_mask, pic2_mask, line_owner,
                   isr_owner, halted, hstack, irr, tpc, cell>>
    /\ UNCHANGED <<mem, cpu, mmu>>

NextSerial == serial_initialize
SpecSerial == InitSerial /\ [][NextSerial]_vars

ReportedSuccess == \E k \in 1 .. Len(itrace) : itrace[k].ev = "printf" /\ itrace[k].s = SUCCESS_MSG
ReportedFailure == \E k \in 1 .. Len(itrace) : itrace[k].ev = "printf" /\ itrace[k].s = FAILED_MSG
BannerWritten == At_("serial_write_string") # {}

\* C39: serial_initialize prints the success message, and writes the banner
\* to the port, exactly when serial_setup returned 0 (the test byte came
\* back), and prints the failure warning exactly when serial_setup returned 1.
C39_ReportMatchesSetup ==
    icall.op = "serial_initialize" =>
        /\ ReportedSuccess <=> icall.ret = 0
        /\ BannerWritten => icall.ret = 0
        /\ (icall.ret = 0 /\ icall.returned) => BannerWritten
        /\ ReportedFailure <=> icall.ret = 1

====
